---- MODULE Spec2Model ----
(***************************************************************************)
(* A model of the BIGSI index of will-rowe/ddevil (src/src/bigsi.c, the     *)
(* Berkeley-DB backed implementation, lines 1-796): bigsInit, bigsAdd,      *)
(* bigsIndex, bigsQuery, bigsLookupColour, bigsDestroy, bigsFlush and       *)
(* bigsLoad acting on one bigsi_t, the two stores and the metadata file.    *)
(***************************************************************************)
EXTENDS Integers, Sequences, FiniteSets, TLC

(***************************************************************************)
(* Bounds of the model.                                                     *)
(***************************************************************************)
\* bits per Bloom filter handed to bigsInit
NumBits == 2
\* hashes per Bloom filter handed to bigsInit
NumHashes == 2
\* most pairs in one id2bf map, and the largest numEntries
MaxBatch == 2
\* slots of the build arrays the model follows (colourIterator is kept below it)
MaxSlots == 4
\* calls followed after bigsIndex or bigsLoad was first called (bigsDestroy and
\* bigsLoad not counted)
MaxPostOps == 1

\* MAX_COLOURS is set in bigsi.h, which is not among the sources; bigsAdd
\* (bigsi.c:157) only compares against it.  A small value makes the limit reachable.
MAX_COLOURS == 3
MaxEvents == 2
\* daemonize.c:17
NUM_THREADS == 4
MaxSignals == 2
MaxPid == 2

\* the error codes bigsQuery returns; their header is not among the sources, and
\* only their being non-zero and distinct is used
ERROR_NULL_ARGUMENT == -2
ERROR_BIGSI_UNINDEXED == -3
ERROR_BIGSI_HASH_MISMATCH == -4
ERROR_BIGSI_RESULT_MISMATCH == -5
ERROR_BIGSI_OR_FAIL == -6
ERROR_BIGSI_AND_FAIL == -7

SeqIDs == {"A", "B", "C", "D"}
Slots == 0 .. (MaxSlots - 1)

(***************************************************************************)
(* Bit vectors (bitvector.h): a capacity and the set of positions that are  *)
(* set.  A slot of an array of pointers holds such a record with st = "ok", *)
(* or a marker: "uninit" (never stored), "freed" (the pointee was released).*)
(***************************************************************************)
bvInit(capacity) == [st |-> "ok", capacity |-> capacity, bits |-> {}]
bvCount(bv) == Cardinality(bv.bits)
bvClone(bv) == [st |-> "ok", capacity |-> bv.capacity, bits |-> bv.bits]
bvGetOK(bv, i) == i >= 0 /\ i < bv.capacity
bvGet(bv, i) == IF i \in bv.bits THEN 1 ELSE 0
bvSet(bv, i) == [bv EXCEPT !.bits = @ \cup {i}]
UninitBV == [st |-> "uninit"]
FreedBV == [st |-> "freed"]

\* Bloom filters handed to bigsAdd.  Each sequence ID comes with one filter that
\* fits the BIGSI (BitsOf gives its bits), or with the empty filter, one with
\* another number of hashes, or one with another capacity.
BitsOf == [s \in SeqIDs |->
             CASE s = "A" -> {0}
               [] s = "B" -> {NumBits - 1}
               [] s = "C" -> {0, NumBits - 1}
               [] OTHER -> {0}]
FitBF(s) ==
    [numHashes |-> NumHashes,
     bitvector |-> [st |-> "ok", capacity |-> NumBits, bits |-> BitsOf[s]]]
EmptyBF == [numHashes |-> NumHashes, bitvector |-> bvInit(NumBits)]
OtherHashesBF == [numHashes |-> NumHashes + 1, bitvector |-> bvSet(bvInit(NumBits), 0)]
OtherCapacityBF == [numHashes |-> NumHashes, bitvector |-> bvSet(bvInit(NumBits + 1), 0)]
UnfitBFs == {EmptyBF, OtherHashesBF, OtherCapacityBF}

FitPairs == {[id |-> s, bf |-> FitBF(s)] : s \in SeqIDs}
Pairs == FitPairs \cup [id : SeqIDs, bf : UnfitBFs]

\* an id2bf map in the order map_next yields it (no key twice): the empty map,
\* every map of one pair, and maps of two pairs whose first filter fits and
\* whose second fits or is empty
Batches ==
    {<<>>} \cup {<<p>> : p \in Pairs}
    \cup {pq \in FitPairs \X (FitPairs \cup [id : SeqIDs, bf : {EmptyBF}]) :
            pq[1].id # pq[2].id /\ MaxBatch >= 2}

\* numEntries as the caller declares it: the size of the map, or one off
NumEntriesFor(id2bf) == {n \in 1 .. MaxBatch : n - Len(id2bf) \in -1 .. 1}

\* What the environment decides during one bigsAdd call:
\*   allocFail  which array allocation returns NULL ("none", "colourArray", "tmpBitVectors")
\*   strFailAt  the pair whose sequence-ID malloc returns NULL (0: none)
\*   oobAbort   whether a store past the end of a build array kills the process
\*              (heap corruption detected) or lands past the block and is read back
\*   staleHit   the pair for which map_get on a released idChecker (after
\*              map_deinit) reports a hit (0: none); reading it is undefined
NoFault == [allocFail |-> "none", strFailAt |-> 0, oobAbort |-> FALSE, staleHit |-> 0]
AddEnvs ==
    {NoFault}
    \cup {[NoFault EXCEPT !.allocFail = a] : a \in {"colourArray", "tmpBitVectors"}}
    \cup {[NoFault EXCEPT !.strFailAt = k] : k \in 1 .. MaxBatch}
    \cup {[NoFault EXCEPT !.oobAbort = TRUE]}
    \cup {[NoFault EXCEPT !.staleHit = k] : k \in 1 .. MaxBatch}

VARIABLES
    bigsi,      \* the bigsi_t record
    disk,       \* the files of dbDirectory: metadata document, bitvectors store, colours store
    pc,         \* "live": bigsi points to a BIGSI; "none": no BIGSI; "aborted": the process died
    call,       \* the last call made: its name, arguments and return value
    added,      \* history: the (seqID, Bloom filter) pairs that were given a colour, in order
    post,       \* history: whether bigsIndex or bigsLoad was called on this BIGSI, the
                \* calls made since, whether bigsAdd was among them, and whether a
                \* store ever went past the end of a build array
    orig,       \* history: the BIGSI and the files as the last bigsFlush found them
    first,      \* history: the first bigsQuery that ran its loop without a store failure
                \* on the indexed BIGSI since anything but a query or a lookup was
                \* called, and whether another query or lookup was made since
    daemon,     \* the daemon process: where its main thread is, the termination flag,
                \* the watcher thread, the worker pool, and the shutdown events so far
    threads,    \* the threads that call into one BIGSI at the same time: for each its
                \* position in the call it is in and that call's arguments and locals
    conf        \* the config handshake: the record written, the record loaded into,
                \* the config files, and the last writeConfig or loadConfig call

bigsiVarsButConf == <<bigsi, disk, pc, call, added, post, orig, first, threads>>
bigsiVars == <<bigsi, disk, pc, call, added, post, orig, first, threads, conf>>
vars == <<bigsi, disk, pc, call, added, post, orig, first, daemon, threads, conf>>

(***************************************************************************)
(* The stores.  A store file holds key/data pairs; a put through an open    *)
(* handle replaces the data under the key and a later get returns a copy of *)
(* the bytes that were put.                                                 *)
(***************************************************************************)
EmptyKV == [k \in {} |-> 0]
NoFile == [exists |-> FALSE, kv |-> EmptyKV]
dbPut(file, key, data) ==
    [exists |-> TRUE,
     kv |-> [k \in DOMAIN file.kv \cup {key} |-> IF k = key THEN data ELSE file.kv[k]]]
dbHas(file, key) == file.exists /\ key \in DOMAIN file.kv
\* DB->open: with DB_CREATE a missing file is created empty
dbOpen(file, create) == IF file.exists \/ ~create THEN file ELSE [exists |-> TRUE, kv |-> EmptyKV]

(***************************************************************************)
(* bigsInit (bigsi.c:30-54)                                                 *)
(***************************************************************************)
bigsInit(numBits, numHashes) ==
    [numBits |-> numBits,
     numHashes |-> numHashes,
     colourIterator |-> 0,
     indexed |-> FALSE,
     idChecker |-> [s \in {} |-> 0],
     idCheckerLive |-> TRUE,
     tmpBitVectors |-> [c \in Slots |-> UninitBV],
     tmpBitVectorsPtr |-> FALSE,
     colourArray |-> [c \in Slots |-> "uninit"],
     colourArrayPtr |-> FALSE,
     bitvectors_dbp |-> "NULL",
     colours_dbp |-> "NULL",
     filenames |-> FALSE]

(***************************************************************************)
(* bigsAdd (bigsi.c:71-174).  st carries the call's locals: the BIGSI, the  *)
(* inputMapCheck counter, whether a store went past an array's allocation   *)
(* (oob), the slots allocated (cap) and the pairs given a colour so far     *)
(* (acc).                                                                   *)
(***************************************************************************)
AddReturn(st, ret) ==
    [bigsi |-> st.bigsi, ret |-> ret, aborted |-> FALSE, oob |-> st.oob, acc |-> st.acc]

AddAbort(st) ==
    [bigsi |-> st.bigsi, ret |-> -1, aborted |-> TRUE, oob |-> TRUE, acc |-> st.acc]

\* bigsi.c:74-112: malloc on the first insert, realloc afterwards.  cap is the
\* number of slots both arrays hold when the loop starts.
bigsAddAlloc(b, numEntries, env) ==
    LET cap == IF ~b.colourArrayPtr THEN numEntries ELSE b.colourIterator + numEntries
    IN  IF env.allocFail = "colourArray"
        THEN [bigsi |-> b, ok |-> FALSE, cap |-> cap]
        ELSE IF env.allocFail = "tmpBitVectors"
        THEN [bigsi |-> [b EXCEPT !.colourArrayPtr = TRUE,
                                  !.tmpBitVectorsPtr = IF b.colourArrayPtr THEN @ ELSE FALSE],
              ok |-> FALSE, cap |-> cap]
        ELSE [bigsi |-> [b EXCEPT !.colourArrayPtr = TRUE, !.tmpBitVectorsPtr = TRUE],
              ok |-> TRUE, cap |-> cap]

\* a bigsAdd that takes every sequence ID for new
idCheckerHasNever(b, seqID, k, env) == FALSE

\* bigsi.c:122: map_get(&bigsi->idChecker, seqID) != NULL
idCheckerHas(b, seqID, k, env) ==
    IF b.idCheckerLive THEN seqID \in DOMAIN b.idChecker ELSE env.staleHit = k

\* a bigsAdd that records the colour after the one it assigns
idCheckerSetNext(b, seqID) ==
    [s \in DOMAIN b.idChecker \cup {seqID} |->
        IF s = seqID THEN b.colourIterator + 1 ELSE b.idChecker[s]]

\* a bigsAdd that records no sequence ID
idCheckerSetNone(b, seqID) == b.idChecker

\* bigsi.c:145: map_set(&bigsi->idChecker, seqID, colourIterator)
idCheckerSet(b, seqID) ==
    IF b.idCheckerLive
    THEN [s \in DOMAIN b.idChecker \cup {seqID} |->
            IF s = seqID THEN b.colourIterator ELSE b.idChecker[s]]
    ELSE b.idChecker

\* a bigsAdd that does not compare the capacity of the filter
bfCompatibleAnyCapacity(b, newBF) ==
    /\ bvCount(newBF.bitvector) # 0
    /\ newBF.numHashes = b.numHashes

\* bigsi.c:130-139: the Bloom filter is not empty and fits the BIGSI
bfCompatible(b, newBF) ==
    /\ bvCount(newBF.bitvector) # 0
    /\ newBF.numHashes = b.numHashes
    /\ newBF.bitvector.capacity = b.numBits

\* bigsi.c:157: the test made after colourIterator++
colourLimitHit(colourIterator) == colourIterator = MAX_COLOURS

RECURSIVE bigsAddLoop(_, _, _, _, _)
\* bigsi.c:114-173: the while loop from pair k on, and the count check after it
bigsAddLoop(st, id2bf, k, numEntries, env) ==
    IF k > Len(id2bf)
    THEN AddReturn(st, IF st.inputMapCheck # numEntries THEN -1 ELSE 0)
    ELSE
    LET b == st.bigsi
        seqID == id2bf[k].id
        newBF == id2bf[k].bf
        ci == b.colourIterator
        past == ci >= st.cap
        st1 == [st EXCEPT !.oob = @ \/ past]
        \* ADD 1 and ADD 2
        b2 == [b EXCEPT !.tmpBitVectors[ci] = bvClone(newBF.bitvector),
                        !.idChecker = idCheckerSet(b, seqID)]
        \* ADD 3 and the increment
        b3 == [b2 EXCEPT !.colourArray[ci] = seqID, !.colourIterator = ci + 1]
    IN  IF idCheckerHas(b, seqID, k, env) THEN AddReturn(st, -1)
        ELSE IF ~bfCompatible(b, newBF) THEN AddReturn(st, -1)
        ELSE IF past /\ env.oobAbort THEN AddAbort(st)
        ELSE IF env.strFailAt = k
             THEN AddReturn([st1 EXCEPT !.bigsi = [b2 EXCEPT !.colourArray[ci] = "NULL"]], -1)
        ELSE IF colourLimitHit(ci + 1)
             THEN AddReturn([st1 EXCEPT !.bigsi = b3, !.acc = Append(@, id2bf[k])], -1)
        ELSE bigsAddLoop([st1 EXCEPT !.bigsi = b3, !.acc = Append(@, id2bf[k]),
                                     !.inputMapCheck = @ + 1],
                         id2bf, k + 1, numEntries, env)

bigsAdd(b, id2bf, numEntries, env) ==
    LET a == bigsAddAlloc(b, numEntries, env)
        st0 == [bigsi |-> a.bigsi, cap |-> a.cap, inputMapCheck |-> 0, oob |-> FALSE,
                acc |-> <<>>]
    IN  IF ~a.ok THEN AddReturn(st0, -1)
        ELSE bigsAddLoop(st0, id2bf, 1, numEntries, env)

\* the faults followed for a call with these arguments: an array allocation
\* fails before the loop whatever the map holds, so it is followed for the empty
\* map; a sequence-ID allocation failure is followed at the last pair, for one filter
AddEnvsFor(b, id2bf, numEntries) ==
    {e \in AddEnvs :
        /\ e.allocFail # "none" => Len(id2bf) = 0
        /\ e.strFailAt \in {0, Len(id2bf)}
        /\ e.strFailAt # 0 => id2bf[e.strFailAt] \in FitPairs
        /\ e.staleHit <= Len(id2bf)
        /\ e.staleHit # 0 => ~b.idCheckerLive
        /\ e.oobAbort => (Len(id2bf) > numEntries \/ (~b.colourArrayPtr /\ Len(id2bf) > 0))}

(***************************************************************************)
(* bigsQuery (bigsi.c:347-426)                                              *)
(***************************************************************************)
RECURSIVE Pow2Mod(_, _)
Pow2Mod(e, n) == IF e = 0 THEN 1 % n ELSE (2 * Pow2Mod(e - 1, n)) % n

\* bigsi.c:382: hv = *(hashValues + i) % bigsi->numBits, on uint64_t.  A hash value
\* v < 0 stands for the uint64_t 2^64 + v (what an int becomes when stored).
hvLocation(v, numBits) ==
    IF v >= 0 THEN v % numBits ELSE (Pow2Mod(64, numBits) + (v % numBits)) % numBits

\* bitvector.h: OR into a destination and AND in place need equal capacities
bvBOROK(a, b) == a.capacity = b.capacity
bvBOR(a, b) == [a EXCEPT !.bits = @ \cup b.bits]
bvBANDupdate(a, b) == [a EXCEPT !.bits = @ \cap b.bits]

\* bigsi.c:398-402: the fetched row is empty: return 0 with the result as it is
emptyRowExit(result) == [ret |-> 0, result |-> result]

\* a bigsQuery that ORs every row into the result
rowUpdateAlwaysOr(i, result, row) == bvBOR(result, row)

\* bigsi.c:405-416: the first row is ORed into the result, each later row ANDed
rowUpdate(i, result, row) == IF i = 0 THEN bvBOR(result, row) ELSE bvBANDupdate(result, row)

RECURSIVE bigsQueryLoop(_, _, _, _, _, _)
\* bigsi.c:378-425, from position i (counted from 0) on
bigsQueryLoop(b, dsk, hashValues, i, result, getFailAt) ==
    IF i >= Len(hashValues) THEN [ret |-> 0, result |-> result]
    ELSE
    LET hv == hvLocation(hashValues[i + 1], b.numBits)
        got == /\ b.bitvectors_dbp = "open"
               /\ dbHas(dsk.bitvectors, hv)
               /\ getFailAt # i + 1
        row == dsk.bitvectors.kv[hv]
    IN  IF ~got THEN [ret |-> -1, result |-> result]
        ELSE IF bvCount(row) = 0 THEN emptyRowExit(result)
        ELSE IF ~bvBOROK(result, row)
             THEN [ret |-> IF i = 0 THEN ERROR_BIGSI_OR_FAIL ELSE ERROR_BIGSI_AND_FAIL,
                   result |-> result]
        ELSE LET r2 == rowUpdate(i, result, row)
             IN  IF i # 0 /\ bvCount(r2) = 0 THEN [ret |-> 0, result |-> r2]
                 ELSE bigsQueryLoop(b, dsk, hashValues, i + 1, r2, getFailAt)

\* a bigsQuery that looks at the indexed flag before it looks for NULL arguments
bigsQueryIndexedFirst(b, dsk, q, getFailAt) ==
    IF ~b.indexed THEN [ret |-> ERROR_BIGSI_UNINDEXED, result |-> q.result]
    ELSE IF q.nullArg # "none" THEN [ret |-> ERROR_NULL_ARGUMENT, result |-> q.result]
    ELSE IF q.len # b.numHashes THEN [ret |-> ERROR_BIGSI_HASH_MISMATCH, result |-> q.result]
    ELSE IF q.result.capacity # b.colourIterator
         THEN [ret |-> ERROR_BIGSI_RESULT_MISMATCH, result |-> q.result]
    ELSE bigsQueryLoop(b, dsk, q.hashValues, 0, q.result, getFailAt)

\* q: [nullArg, hashValues, len, result]; nullArg names the pointer that is NULL
bigsQuery(b, dsk, q, getFailAt) ==
    IF q.nullArg # "none" THEN [ret |-> ERROR_NULL_ARGUMENT, result |-> q.result]
    ELSE IF ~b.indexed THEN [ret |-> ERROR_BIGSI_UNINDEXED, result |-> q.result]
    ELSE IF q.len # b.numHashes THEN [ret |-> ERROR_BIGSI_HASH_MISMATCH, result |-> q.result]
    ELSE IF q.result.capacity # b.colourIterator
         THEN [ret |-> ERROR_BIGSI_RESULT_MISMATCH, result |-> q.result]
    ELSE bigsQueryLoop(b, dsk, q.hashValues, 0, q.result, getFailAt)

\* a checkDB that reports the stores healthy whatever its query returns
checkDBAlwaysHealthy(b, dsk, getFailAt) == 0

\* checkDB (bigsi.c:776-796): query the rows numBits-1, numBits-2, ...
checkHashValues(b) == [i \in 1 .. b.numHashes |-> b.numBits - 1 - (i - 1)]
checkDB(b, dsk, getFailAt) ==
    LET q == [nullArg |-> "none", hashValues |-> checkHashValues(b), len |-> b.numHashes,
              result |-> bvInit(b.colourIterator)]
        err == bigsQuery(b, dsk, q, getFailAt).ret
    IN  IF err # 0 THEN -1 ELSE 0

(***************************************************************************)
(* bigsIndex (bigsi.c:186-328).  env.fail names the step the environment    *)
(* fails ("none", "openColours", "openBitvectors", "bvInit", "putRow",      *)
(* "putColour", "get") and env.at the row, colour or query position.        *)
(***************************************************************************)
\* an initDBs that opens both stores without DB_CREATE whatever the caller's flags
initDBsNoCreate(b, dsk, create, env) ==
    IF env.fail = "openColours" \/ ~dsk.colours.exists
    THEN [ok |-> FALSE, bigsi |-> [b EXCEPT !.colours_dbp = "failed"], disk |-> dsk]
    ELSE IF env.fail = "openBitvectors" \/ ~dsk.bitvectors.exists
    THEN [ok |-> FALSE, bigsi |-> [b EXCEPT !.colours_dbp = "open", !.bitvectors_dbp = "failed"],
          disk |-> dsk]
    ELSE [ok |-> TRUE, bigsi |-> [b EXCEPT !.colours_dbp = "open", !.bitvectors_dbp = "open"],
          disk |-> dsk]

\* initDBs/openDB (bigsi.c:664-752): the colours store first, then the bit vectors
initDBs(b, dsk, create, env) ==
    IF env.fail = "openColours" \/ ~(dsk.colours.exists \/ create)
    THEN [ok |-> FALSE, bigsi |-> [b EXCEPT !.colours_dbp = "failed"], disk |-> dsk]
    ELSE LET d1 == [dsk EXCEPT !.colours = dbOpen(@, create)]
             b1 == [b EXCEPT !.colours_dbp = "open"]
         IN  IF env.fail = "openBitvectors" \/ ~(dsk.bitvectors.exists \/ create)
             THEN [ok |-> FALSE, bigsi |-> [b1 EXCEPT !.bitvectors_dbp = "failed"], disk |-> d1]
             ELSE [ok |-> TRUE, bigsi |-> [b1 EXCEPT !.bitvectors_dbp = "open"],
                   disk |-> [d1 EXCEPT !.bitvectors = dbOpen(@, create)]]

\* a bigsIndex that gives every row one bit for each slot of the build arrays
rowCapacitySlots(b) == MaxSlots

\* bigsi.c:225: the capacity of the row built for one bit position
rowCapacity(b) == b.colourIterator

\* a bigsIndex that reads each colour's bits from the other end of its filter
colourHasBitMirrored(b, colour, i) == bvGet(b.tmpBitVectors[colour], b.numBits - 1 - i)

\* bigsi.c:243-253: bit i of the Bloom filter kept for the colour
colourHasBit(b, colour, i) == bvGet(b.tmpBitVectors[colour], i)

RECURSIVE indexRow(_, _, _, _)
\* bigsi.c:233-273: the inner loop over the colours for row i
indexRow(b, i, colour, newBV) ==
    IF colour >= b.colourIterator THEN [ok |-> TRUE, bv |-> newBV]
    ELSE LET t == b.tmpBitVectors[colour]
         IN  IF t.st # "ok" THEN [ok |-> FALSE, bv |-> newBV]
             ELSE IF ~bvGetOK(t, i) THEN [ok |-> FALSE, bv |-> newBV]
             ELSE IF colourHasBit(b, colour, i) = 0 THEN indexRow(b, i, colour + 1, newBV)
             ELSE IF ~bvGetOK(newBV, colour) THEN [ok |-> FALSE, bv |-> newBV]
             ELSE IF bvGet(newBV, colour) = 1 THEN [ok |-> FALSE, bv |-> newBV]
             ELSE indexRow(b, i, colour + 1, bvSet(newBV, colour))

RECURSIVE indexRows(_, _, _, _)
\* bigsi.c:221-300: one row per bit position, put under key i
indexRows(b, dsk, i, env) ==
    IF i >= b.numBits THEN [ok |-> TRUE, disk |-> dsk]
    ELSE IF env.fail = "bvInit" /\ env.at = i THEN [ok |-> FALSE, disk |-> dsk]
    ELSE LET r == indexRow(b, i, 0, bvInit(rowCapacity(b)))
         IN  IF ~r.ok THEN [ok |-> FALSE, disk |-> dsk]
             ELSE IF env.fail = "putRow" /\ env.at = i THEN [ok |-> FALSE, disk |-> dsk]
             ELSE indexRows(b, [dsk EXCEPT !.bitvectors = dbPut(@, i, r.bv)], i + 1, env)

\* a bigsIndex that stores the first sequence ID under every colour
colourDataFirst(b, colour) == b.colourArray[0]

\* bigsi.c:309-310: the bytes put under the colour, its sequence ID with the NUL
colourData(b, colour) == b.colourArray[colour]

RECURSIVE indexColours(_, _, _, _)
\* bigsi.c:303-320: put colour -> sequence ID, then free the colour's build data
indexColours(b, dsk, colour, env) ==
    IF colour >= b.colourIterator THEN [ok |-> TRUE, bigsi |-> b, disk |-> dsk]
    ELSE IF env.fail = "putColour" /\ env.at = colour
    THEN [ok |-> FALSE, bigsi |-> b, disk |-> dsk]
    ELSE indexColours([b EXCEPT !.colourArray[colour] = "freed",
                                !.tmpBitVectors[colour] = FreedBV],
                      [dsk EXCEPT !.colours = dbPut(@, colour, colourData(b, colour))],
                      colour + 1, env)

\* bigsi.c:323-324: map_deinit(&bigsi->idChecker); bigsi->indexed = true
markIndexed(b) == [b EXCEPT !.idChecker = EmptyKV, !.idCheckerLive = FALSE, !.indexed = TRUE]

\* a bigsIndex that only refuses a BIGSI that is already indexed
indexRefusedIndexedOnly(b) == b.indexed

\* bigsi.c:189-201: nothing to index, or indexing has already been run
indexRefused(b) == b.colourIterator < 1 \/ b.indexed

bigsIndex(b, dsk, env) ==
    IF indexRefused(b) THEN [ret |-> -1, bigsi |-> b, disk |-> dsk]
    ELSE
    LET o == initDBs([b EXCEPT !.filenames = TRUE], dsk, TRUE, env)
        rows == indexRows(o.bigsi, o.disk, 0, env)
        cols == indexColours(o.bigsi, rows.disk, 0, env)
        done == markIndexed(cols.bigsi)
    IN  IF ~o.ok THEN [ret |-> -1, bigsi |-> o.bigsi, disk |-> o.disk]
        ELSE IF ~rows.ok THEN [ret |-> -1, bigsi |-> o.bigsi, disk |-> rows.disk]
        ELSE IF ~cols.ok THEN [ret |-> -1, bigsi |-> cols.bigsi, disk |-> cols.disk]
        ELSE [ret |-> checkDB(done, cols.disk, IF env.fail = "get" THEN env.at ELSE 0),
              bigsi |-> done, disk |-> cols.disk]

NoIndexFault == [fail |-> "none", at |-> 0]
\* the faults followed for a bigsIndex call, each at the first and the last place
IndexEnvsFor(b) ==
    {NoIndexFault}
    \cup {[fail |-> f, at |-> 0] : f \in {"openColours", "openBitvectors"}}
    \cup {[fail |-> f, at |-> i] : f \in {"bvInit", "putRow"}, i \in {0, b.numBits - 1}}
    \cup {[fail |-> "putColour", at |-> c] : c \in {0, b.colourIterator - 1} \cap Nat}
    \cup {[fail |-> "get", at |-> h] : h \in {1, b.numHashes}}

(***************************************************************************)
(* bigsLookupColour (bigsi.c:443-494).  l: [colour, resultNull]; env names  *)
(* the step that fails ("none", "get", "malloc").                           *)
(***************************************************************************)
\* bigsi.c:453: the range check on the query colour
colourOutOfRange(b, colour) == colour > b.colourIterator

NoResult == "(unset)"
bigsLookupColour(b, dsk, l, env) ==
    IF ~b.indexed THEN [ret |-> -1, result |-> NoResult]
    ELSE IF colourOutOfRange(b, l.colour) THEN [ret |-> -1, result |-> NoResult]
    ELSE IF l.resultNull THEN [ret |-> -1, result |-> NoResult]
    ELSE IF env = "get" \/ b.colours_dbp # "open" \/ ~dbHas(dsk.colours, l.colour)
    THEN [ret |-> -1, result |-> NoResult]
    ELSE IF env = "malloc" THEN [ret |-> -1, result |-> "NULL"]
    ELSE [ret |-> 0, result |-> dsk.colours.kv[l.colour]]

(***************************************************************************)
(* The metadata document (frozen.h json_fprintf / json_scanf): %d prints an *)
(* int in decimal and scans it back, %Q a quoted string.                    *)
(***************************************************************************)
Digit == <<"0", "1", "2", "3", "4", "5", "6", "7", "8", "9">>
RECURSIVE printInt(_)
printInt(n) ==
    IF n < 0 THEN <<"-">> \o printInt(-n)
    ELSE IF n < 10 THEN <<Digit[n + 1]>>
    ELSE printInt(n \div 10) \o <<Digit[(n % 10) + 1]>>

digitValue(ch) == (CHOOSE d \in 1 .. 10 : Digit[d] = ch) - 1
RECURSIVE scanDigits(_, _)
scanDigits(txt, acc) ==
    IF txt = <<>> THEN acc ELSE scanDigits(Tail(txt), 10 * acc + digitValue(Head(txt)))
scanInt(txt) == IF Head(txt) = "-" THEN -scanDigits(Tail(txt), 0) ELSE scanDigits(txt, 0)

dbDirectory == "D"
\* a bigsFlush that writes colourIterator where numHashes belongs
metadataDocSwapped(b) ==
    [db_directory |-> "D", metadata |-> "D/metadata.json",
     bitvectors |-> "D/bitvectors.db", colours |-> "D/colours.db",
     numBits |-> printInt(b.numBits), numHashes |-> printInt(b.colourIterator),
     colourIterator |-> printInt(b.colourIterator)]

\* bigsi.c:560-567: the document json_fprintf writes
metadataDoc(b) ==
    [db_directory |-> dbDirectory, metadata |-> "D/metadata.json",
     bitvectors |-> "D/bitvectors.db", colours |-> "D/colours.db",
     numBits |-> printInt(b.numBits), numHashes |-> printInt(b.numHashes),
     colourIterator |-> printInt(b.colourIterator)]

(***************************************************************************)
(* bigsFlush (bigsi.c:549-583) and bigsDestroy (bigsi.c:508-537).  freed    *)
(* says whether the bigsi_t itself was released.                            *)
(***************************************************************************)
\* a closeDBs that leaves both handles as they are
closeDBsNone(b) == b

\* closeDBs (bigsi.c:689-711)
closeDBs(b) ==
    [b EXCEPT !.colours_dbp = IF @ # "NULL" THEN "closed" ELSE @,
              !.bitvectors_dbp = IF @ # "NULL" THEN "closed" ELSE @]

bigsFlush(b, dsk, env) ==
    IF ~b.indexed THEN [ret |-> -1, bigsi |-> b, disk |-> dsk, freed |-> FALSE]
    ELSE IF env = "fprintf" THEN [ret |-> -1, bigsi |-> b, disk |-> dsk, freed |-> FALSE]
    ELSE [ret |-> 0,
          bigsi |-> [closeDBs(b) EXCEPT !.filenames = FALSE],
          disk |-> [dsk EXCEPT !.metadata = [exists |-> TRUE, doc |-> metadataDoc(b)]],
          freed |-> TRUE]

\* bigsi.c:521-535: the build data of an unindexed BIGSI is released
destroyBuild(b) ==
    [b EXCEPT !.tmpBitVectors = [c \in Slots |-> IF c < b.colourIterator THEN FreedBV ELSE @[c]],
              !.colourArray = [c \in Slots |-> IF c < b.colourIterator THEN "freed" ELSE @[c]],
              !.tmpBitVectorsPtr = FALSE, !.colourArrayPtr = FALSE,
              !.idChecker = EmptyKV, !.idCheckerLive = FALSE]

bigsDestroy(b, dsk, env) ==
    IF b.indexed THEN bigsFlush(b, dsk, env)
    ELSE [ret |-> 0,
          bigsi |-> [(IF b.colourIterator # 0 THEN destroyBuild(b) ELSE b)
                        EXCEPT !.numBits = 0, !.numHashes = 0, !.colourIterator = 0],
          disk |-> dsk,
          freed |-> TRUE]

(***************************************************************************)
(* bigsLoad (bigsi.c:598-661).  env.fail: "none", "malloc", "scanf",        *)
(* "openColours", "openBitvectors", "get" (with env.at the query position). *)
(***************************************************************************)
\* bigsi.c:612: the three files must be there
filesAccessible(dsk) == dsk.metadata.exists /\ dsk.bitvectors.exists /\ dsk.colours.exists

\* bigsi.c:622-629: the fields json_scanf fills in
scanMetadata(b, doc) ==
    [b EXCEPT !.numBits = scanInt(doc.numBits), !.numHashes = scanInt(doc.numHashes),
              !.colourIterator = scanInt(doc.colourIterator)]

bigsLoad(dsk, env) ==
    LET b0 == [bigsInit(1, 1) EXCEPT !.filenames = TRUE]
        b1 == scanMetadata(b0, dsk.metadata.doc)
        o == initDBs(b1, dsk, FALSE, env)
        b2 == [o.bigsi EXCEPT !.indexed = TRUE]
    IN  IF env.fail = "malloc" THEN [ok |-> FALSE, bigsi |-> b0, disk |-> dsk]
        ELSE IF ~filesAccessible(dsk) THEN [ok |-> FALSE, bigsi |-> b0, disk |-> dsk]
        ELSE IF env.fail = "scanf" THEN [ok |-> FALSE, bigsi |-> b0, disk |-> dsk]
        ELSE IF ~o.ok THEN [ok |-> FALSE, bigsi |-> o.bigsi, disk |-> o.disk]
        ELSE IF checkDB(b2, o.disk, IF env.fail = "get" THEN env.at ELSE 0) # 0
        THEN [ok |-> FALSE, bigsi |-> b2, disk |-> o.disk]
        ELSE [ok |-> TRUE, bigsi |-> b2, disk |-> o.disk]

LoadEnvs ==
    {NoIndexFault}
    \cup {[fail |-> f, at |-> 0] : f \in {"malloc", "scanf", "openColours", "openBitvectors"}}
    \cup {[fail |-> "get", at |-> 1]}

(***************************************************************************)
(* The arguments callers are followed with.                                 *)
(***************************************************************************)
\* hash values: every row position and one value that wraps (numBits itself)
HashValues == 0 .. NumBits
\* hash lists: every list of numHashes values, and one shorter
HashLists == [1 .. NumHashes -> HashValues] \cup {<<0>>}
\* a query with an all-zero result vector of the given capacity
Query(hashValues, capacity) ==
    [nullArg |-> "none", hashValues |-> hashValues, len |-> Len(hashValues),
     result |-> bvInit(capacity)]
\* the queries made of b: each hash list with a result of the right capacity,
\* two with another capacity, one with each pointer NULL
QueriesFor(b) ==
    {Query(h, b.colourIterator) : h \in HashLists}
    \cup {Query(h, b.colourIterator + 1) : h \in {[i \in 1 .. NumHashes |-> 0], <<0>>}}
    \cup {[Query([i \in 1 .. NumHashes |-> 0], b.colourIterator) EXCEPT !.nullArg = a] :
            a \in {"hashValues", "result"}}
LookupsFor(b) ==
    {[colour |-> c, resultNull |-> FALSE] : c \in -1 .. (b.colourIterator + 1)}
    \cup {[colour |-> 0, resultNull |-> TRUE]}

NoOrig == [set |-> FALSE]

\* the threads that share the BIGSI; none is inside a call
MaxThreads == 2
Threads == 1 .. MaxThreads
Idle ==
    [pc |-> "idle", op |-> "none", arg |-> <<>>, fault |-> 0, i |-> 0, row |-> bvInit(0),
     result |-> bvInit(0), ret |-> 0]
NoThreads == [t \in Threads |-> Idle]

\* no config record was made yet
NoConf == [alive |-> TRUE, call |-> [op |-> "none"]]
NoFirst == [set |-> FALSE]
\* startDaemon has not begun: no pool, no watcher, no signal yet
NoDaemon ==
    [main |-> "setup", done |-> FALSE, signals |-> 0, watcher |-> "none", session |-> "none",
     pool |-> "none", queue |-> 0, busy |-> 0, events |-> 0, lateSubmit |-> FALSE,
     log |-> <<>>,
     status |-> "running", pid |-> 0, handler |-> FALSE, failed |-> {},
     config |-> [pid |-> -1, running |-> FALSE],
     file |-> [pid |-> -1, running |-> FALSE]]

Init ==
    /\ bigsi = bigsInit(NumBits, NumHashes)
    /\ disk = [metadata |-> [exists |-> FALSE, doc |-> <<>>], bitvectors |-> NoFile,
               colours |-> NoFile]
    /\ pc = "live"
    /\ call = [op |-> "bigsInit", ret |-> 0]
    /\ added = <<>>
    /\ post = [on |-> FALSE, ops |-> 0, added |-> FALSE, oob |-> FALSE]
    /\ orig = NoOrig
    /\ first = NoFirst
    /\ daemon = NoDaemon
    /\ threads = NoThreads
    /\ conf = NoConf

\* a call on the BIGSI is followed: any during the build, MaxPostOps once
\* bigsIndex or bigsLoad was called
Followed == pc = "live" /\ (post.on => post.ops < MaxPostOps)
Count(isAdd, oob) ==
    post' = IF post.on THEN [post EXCEPT !.ops = @ + 1, !.added = @ \/ isAdd, !.oob = @ \/ oob]
            ELSE [post EXCEPT !.oob = @ \/ oob]

\* what the history keeps of a bigsAdd call's arguments: the first pair whose
\* sequence ID the idChecker already held when the call was made (0: none), the
\* sequence IDs whose Bloom filter is empty or does not fit
FirstDup(b, id2bf) ==
    LET dups == {k \in 1 .. Len(id2bf) : id2bf[k].id \in DOMAIN b.idChecker}
    IN  IF dups = {} THEN 0 ELSE CHOOSE k \in dups : \A j \in dups : k <= j

BadIDs(b, id2bf) ==
    {id2bf[k].id : k \in {j \in 1 .. Len(id2bf) : ~bfCompatible(b, id2bf[j].bf)}}

\* the calls followed: every map with numEntries the size of the map or one off
AddCalls ==
    {c \in [id2bf : Batches, numEntries : 1 .. MaxBatch] :
        c.numEntries \in NumEntriesFor(c.id2bf)}
\* the calls followed where a BIGSI is taken through bigsIndex, bigsDestroy and
\* bigsLoad: maps of one pair that fits
OnePairCalls == {c \in AddCalls : Len(c.id2bf) = 1 /\ c.id2bf[1] \in FitPairs}

Add(calls) ==
    /\ Followed
    /\ \E c \in calls :
         /\ bigsi.colourIterator + Len(c.id2bf) <= MaxSlots
         /\ \E env \in AddEnvsFor(bigsi, c.id2bf, c.numEntries) :
              LET r == bigsAdd(bigsi, c.id2bf, c.numEntries, env)
              IN  /\ bigsi' = r.bigsi
                  /\ pc' = IF r.aborted THEN "aborted" ELSE "live"
                  /\ call' = [op |-> "bigsAdd", ret |-> r.ret,
                               id2bf |-> IF r.ret = 0 /\ ~r.aborted THEN c.id2bf ELSE <<>>,
                               k |-> bigsi.colourIterator,
                               dupAt |-> FirstDup(bigsi, c.id2bf),
                               badIDs |-> BadIDs(bigsi, c.id2bf),
                               oob |-> r.oob]
                  /\ added' = added \o r.acc
                  /\ Count(TRUE, r.oob)
                  /\ first' = NoFirst
                  /\ UNCHANGED <<disk, orig, daemon, threads, conf>>

BigsAdd == Add(AddCalls)
BigsAddOne == Add(OnePairCalls)

BigsIndex ==
    /\ Followed
    /\ \E env \in IndexEnvsFor(bigsi) :
         LET r == bigsIndex(bigsi, disk, env)
         IN  /\ bigsi' = r.bigsi
             /\ disk' = r.disk
             /\ call' = [op |-> "bigsIndex", ret |-> r.ret, fail |-> env.fail]
             /\ post' = IF post.on THEN [post EXCEPT !.ops = @ + 1] ELSE [post EXCEPT !.on = TRUE]
             /\ first' = NoFirst
             /\ UNCHANGED <<pc, added, orig, daemon, threads, conf>>

\* a query or a lookup is followed within the calls counted by post, or, when
\* it is not counted, whenever there is a BIGSI
Read(counted) ==
    IF counted THEN Followed /\ Count(FALSE, FALSE) ELSE pc = "live" /\ UNCHANGED post

Query1(counted) ==
    /\ Read(counted)
    /\ \E q \in QueriesFor(bigsi), getFailAt \in {0, 1, NumHashes} :
         LET r == bigsQuery(bigsi, disk, q, getFailAt)
         IN  /\ call' = [op |-> "bigsQuery", ret |-> r.ret, q |-> q, result |-> r.result,
                          getFailAt |-> getFailAt]
             /\ first' = IF ~bigsi.indexed THEN first
                         ELSE IF first.set
                         THEN [first EXCEPT !.others = @ \/ q # first.q \/ getFailAt # 0]
                         ELSE IF getFailAt = 0
                         THEN [set |-> TRUE, q |-> q, ret |-> r.ret, result |-> r.result,
                               others |-> FALSE]
                         ELSE first
             /\ UNCHANGED <<bigsi, disk, pc, added, orig, daemon, threads, conf>>

BigsQuery == Query1(TRUE)
BigsQueryAny == Query1(FALSE)

\* a bigsLookupColour that closes the handle of the bit vector store
BigsLookupColourClosing ==
    /\ pc = "live"
    /\ \E l \in LookupsFor(bigsi), env \in {"none", "get", "malloc"} :
         LET r == bigsLookupColour(bigsi, disk, l, env)
         IN  /\ call' = [op |-> "bigsLookupColour", ret |-> r.ret, l |-> l,
                          result |-> r.result, fail |-> env]
             /\ first' = IF first.set THEN [first EXCEPT !.others = TRUE] ELSE first
             /\ bigsi' = [bigsi EXCEPT !.bitvectors_dbp = "closed"]
             /\ UNCHANGED <<disk, pc, added, orig, post, daemon, threads, conf>>

Lookup1(counted) ==
    /\ Read(counted)
    /\ \E l \in LookupsFor(bigsi), env \in {"none", "get", "malloc"} :
         LET r == bigsLookupColour(bigsi, disk, l, env)
         IN  /\ call' = [op |-> "bigsLookupColour", ret |-> r.ret, l |-> l,
                          result |-> r.result, fail |-> env]
             /\ first' = IF first.set THEN [first EXCEPT !.others = TRUE] ELSE first
             /\ UNCHANGED <<bigsi, disk, pc, added, orig, daemon, threads, conf>>

BigsLookupColour == Lookup1(TRUE)
BigsLookupColourAny == Lookup1(FALSE)

BigsDestroy ==
    /\ pc = "live"
    /\ \E env \in {"none", "fprintf"} :
         LET r == bigsDestroy(bigsi, disk, env)
         IN  /\ bigsi' = r.bigsi
             /\ disk' = r.disk
             /\ pc' = IF r.freed THEN "none" ELSE "live"
             /\ call' = [op |-> "bigsDestroy", ret |-> r.ret, fail |-> env,
                          wasIndexed |-> bigsi.indexed]
             /\ orig' = IF bigsi.indexed /\ r.ret = 0
                        THEN [set |-> TRUE, bigsi |-> bigsi, disk |-> disk,
                              addedSinceFrozen |-> post.added]
                        ELSE orig
             /\ first' = NoFirst
             /\ UNCHANGED <<added, post, daemon, threads, conf>>

BigsLoad ==
    /\ pc = "none"
    /\ \E env \in LoadEnvs :
         LET r == bigsLoad(disk, env)
         IN  /\ bigsi' = r.bigsi
             /\ disk' = r.disk
             /\ pc' = IF r.ok THEN "live" ELSE "none"
             /\ call' = [op |-> "bigsLoad", ret |-> IF r.ok THEN 0 ELSE -1, fail |-> env.fail]
             /\ post' = [post EXCEPT !.on = TRUE]
             /\ first' = NoFirst
             /\ UNCHANGED <<added, orig, daemon, threads, conf>>

Next ==
    \/ BigsAddOne
    \/ BigsIndex
    \/ BigsQuery
    \/ BigsLookupColour
    \/ BigsDestroy
    \/ BigsLoad

Spec == Init /\ [][Next]_vars

\* the build alone: bigsAdd calls on the BIGSI that bigsInit returned
NextBuild == BigsAdd
SpecBuild == Init /\ [][NextBuild]_vars

\* the sequences an earlier BIGSI was given: up to MAX_COLOURS - 1, no ID twice
EarlierBuilds ==
    {ps \in UNION {[1 .. n -> FitPairs] : n \in 1 .. MAX_COLOURS - 1} :
        \A i, j \in DOMAIN ps : i # j => ps[i].id # ps[j].id}

\* the files an earlier BIGSI left in the directory: it was given the pairs in
\* one bigsAdd, indexed and destroyed
DiskLeftBy(pairs) ==
    LET built == bigsAdd(bigsInit(NumBits, NumHashes), pairs, Len(pairs), NoFault).bigsi
        frozen == bigsIndex(built, [metadata |-> [exists |-> FALSE, doc |-> <<>>],
                                    bitvectors |-> NoFile, colours |-> NoFile], NoIndexFault)
    IN  bigsDestroy(frozen.bigsi, frozen.disk, "none").disk

EarlierDisk == DiskLeftBy(CHOOSE ps \in EarlierBuilds : Len(ps) = MAX_COLOURS - 1)

\* bigsInit on a directory that holds the files of an earlier BIGSI
InitReuse ==
    /\ bigsi = bigsInit(NumBits, NumHashes)
    /\ disk = EarlierDisk
    /\ pc = "live"
    /\ call = [op |-> "bigsInit", ret |-> 0]
    /\ added = <<>>
    /\ post = [on |-> FALSE, ops |-> 0, added |-> FALSE, oob |-> FALSE]
    /\ orig = NoOrig
    /\ first = NoFirst
    /\ daemon = NoDaemon
    /\ threads = NoThreads
    /\ conf = NoConf

\* a build in a reused directory, its freeze and the colour lookups after it
NextReuse ==
    \/ BigsAddOne
    \/ BigsIndex
    \/ BigsLookupColour
SpecReuse == InitReuse /\ [][NextReuse]_vars

\* bigsLoad returned the BIGSI that an earlier process built, indexed and destroyed
InitLoaded ==
    \E ps \in EarlierBuilds :
        LET r == bigsLoad(DiskLeftBy(ps), NoIndexFault)
        IN  /\ bigsi = r.bigsi
            /\ disk = r.disk
            /\ pc = "live"
            /\ call = [op |-> "bigsLoad", ret |-> 0, fail |-> "none"]
            /\ added = ps
            /\ post = [on |-> TRUE, ops |-> 0, added |-> FALSE, oob |-> FALSE]
            /\ orig = NoOrig
            /\ first = NoFirst
            /\ daemon = NoDaemon
            /\ threads = NoThreads
            /\ conf = NoConf

\* any number of queries and lookups on the loaded BIGSI
NextRead ==
    \/ BigsQueryAny
    \/ BigsLookupColourAny
SpecRead == InitLoaded /\ [][NextRead]_vars

(***************************************************************************)
(* bigsAdd called from several threads on one unfrozen BIGSI, one statement *)
(* at a time and without a lock (bigsi.c:71-174 takes none).  seqID, iter   *)
(* and inputMapCheck are locals; colourIterator, idChecker, tmpBitVectors   *)
(* and colourArray are shared.  Each thread makes one call; the sizes of    *)
(* the arrays are not followed here.                                        *)
(***************************************************************************)
\* the calls followed: maps of one or two pairs that fit, declared with their size
RaceIDs == {"A", "B", "C"}
RaceCalls ==
    {c \in AddCalls :
        /\ c.numEntries = Len(c.id2bf)
        /\ \A k \in DOMAIN c.id2bf : c.id2bf[k] \in FitPairs /\ c.id2bf[k].id \in RaceIDs}

InCall(u) == threads[u].pc \notin {"idle", "returned"}
ThePair(t) == threads[t].arg.id2bf[threads[t].i + 1]
AddStep(t, place) == threads' = [threads EXCEPT ![t].pc = place]
AddReturned(t, ret) == threads' = [threads EXCEPT ![t].pc = "returned", ![t].ret = ret]

\* a bigsAdd that gives every pair the colour 0
nextColourZero(b) == 0

\* bigsi.c:144-155: the slot ADD 1, ADD 2 and ADD 3 use, read when they run
nextColour(b) == b.colourIterator

\* bigsi.c:74-119: the arrays are allocated or resized and the iterator set up
AddEnter(t) ==
    /\ pc = "live" /\ ~bigsi.indexed
    /\ threads[t].pc = "idle"
    /\ \E c \in RaceCalls :
         threads' = [u \in Threads |->
                       IF u = t
                       THEN [pc |-> "check", op |-> "bigsAdd", arg |-> c, i |-> 0, ret |-> 0,
                             overlap |-> \E v \in Threads : InCall(v)]
                       ELSE IF InCall(u) THEN [threads[u] EXCEPT !.overlap = TRUE]
                       ELSE threads[u]]
    /\ bigsi' = [bigsi EXCEPT !.colourArrayPtr = TRUE, !.tmpBitVectorsPtr = TRUE]
    /\ UNCHANGED <<disk, pc, call, added, post, orig, first, daemon, conf>>

\* bigsi.c:118-141: the next pair, the duplicate test and the filter tests
AddCheck(t) ==
    /\ pc = "live" /\ threads[t].pc = "check"
    /\ IF ThePair(t).id \in DOMAIN bigsi.idChecker THEN AddReturned(t, -1)
       ELSE IF ~bfCompatible(bigsi, ThePair(t).bf) THEN AddReturned(t, -1)
       ELSE AddStep(t, "add1")
    /\ UNCHANGED <<bigsi, disk, pc, call, added, post, orig, first, daemon, conf>>

\* bigsi.c:144: ADD 1
AddStoreVector(t) ==
    /\ pc = "live" /\ threads[t].pc = "add1"
    /\ bigsi' = [bigsi EXCEPT
                   !.tmpBitVectors[nextColour(bigsi)] = bvClone(ThePair(t).bf.bitvector)]
    /\ AddStep(t, "add2")
    /\ UNCHANGED <<disk, pc, call, added, post, orig, first, daemon, conf>>

\* bigsi.c:147: ADD 2, map_set puts or replaces the entry of the sequence ID
AddStoreID(t) ==
    /\ pc = "live" /\ threads[t].pc = "add2"
    /\ bigsi' = [bigsi EXCEPT !.idChecker = idCheckerSet(bigsi, ThePair(t).id)]
    /\ AddStep(t, "add3")
    /\ UNCHANGED <<disk, pc, call, added, post, orig, first, daemon, conf>>

\* bigsi.c:150: ADD 3, the slot gets a fresh block (what it pointed to is lost)
AddAllocName(t) ==
    /\ pc = "live" /\ threads[t].pc = "add3"
    /\ bigsi' = [bigsi EXCEPT !.colourArray[nextColour(bigsi)] = "(malloc)"]
    /\ AddStep(t, "copy")
    /\ UNCHANGED <<disk, pc, call, added, post, orig, first, daemon, conf>>

\* bigsi.c:155: strcpy into the slot colourIterator names now.  A slot that was
\* never assigned holds no pointer: the copy goes anywhere, or kills the process.
AddCopyName(t) ==
    /\ pc = "live" /\ threads[t].pc = "copy"
    /\ IF bigsi.colourArray[nextColour(bigsi)] = "uninit"
       THEN \E dies \in BOOLEAN :
              /\ pc' = IF dies THEN "aborted" ELSE pc
              /\ UNCHANGED bigsi
       ELSE /\ bigsi' = [bigsi EXCEPT !.colourArray[nextColour(bigsi)] = ThePair(t).id]
            /\ UNCHANGED pc
    /\ AddStep(t, "incr")
    /\ UNCHANGED <<disk, call, added, post, orig, first, daemon, conf>>

\* bigsi.c:158: colourIterator++
AddIncrement(t) ==
    /\ pc = "live" /\ threads[t].pc = "incr"
    /\ bigsi' = [bigsi EXCEPT !.colourIterator = @ + 1]
    /\ AddStep(t, "limit")
    /\ UNCHANGED <<disk, pc, call, added, post, orig, first, daemon, conf>>

\* bigsi.c:159-163: the test against MAX_COLOURS
AddLimit(t) ==
    /\ pc = "live" /\ threads[t].pc = "limit"
    /\ IF colourLimitHit(bigsi.colourIterator) THEN AddReturned(t, -1) ELSE AddStep(t, "next")
    /\ UNCHANGED <<bigsi, disk, pc, call, added, post, orig, first, daemon, conf>>

\* bigsi.c:165-173: inputMapCheck++, the next pair or the count test and return
AddNext(t) ==
    /\ pc = "live" /\ threads[t].pc = "next"
    /\ LET n == threads[t].i + 1
       IN  threads' = [threads EXCEPT
                         ![t].i = n,
                         ![t].pc = IF n < Len(threads[t].arg.id2bf) THEN "check"
                                   ELSE "returned",
                         ![t].ret = IF n < Len(threads[t].arg.id2bf) THEN @
                                    ELSE IF n # threads[t].arg.numEntries THEN -1 ELSE 0]
    /\ UNCHANGED <<bigsi, disk, pc, call, added, post, orig, first, daemon, conf>>

NextAdders ==
    \/ \E t \in Threads : AddEnter(t)
    \/ \E t \in Threads : AddCheck(t)
    \/ \E t \in Threads : AddStoreVector(t)
    \/ \E t \in Threads : AddStoreID(t)
    \/ \E t \in Threads : AddAllocName(t)
    \/ \E t \in Threads : AddCopyName(t)
    \/ \E t \in Threads : AddIncrement(t)
    \/ \E t \in Threads : AddLimit(t)
    \/ \E t \in Threads : AddNext(t)
SpecAdders == Init /\ [][NextAdders]_vars

(***************************************************************************)
(* config.c: writeConfig and loadConfig.  A C string is NULL or a sequence  *)
(* of characters; a config file is missing or holds the members that        *)
(* json_fprintf printed, each a key and the text of its value.  A member    *)
(* printed without its colon ends what a JSON reader can walk.              *)
(***************************************************************************)
NullStr == [null |-> TRUE, s |-> <<>>]
Str(s) == [null |-> FALSE, s |-> s]

\* frozen, %Q on output: a quote, a backslash and a newline are escaped
escapeChar(ch) ==
    CASE ch = "\"" -> <<"\\", "\"">>
      [] ch = "\\" -> <<"\\", "\\">>
      [] ch = "\n" -> <<"\\", "n">>
      [] OTHER -> <<ch>>

RECURSIVE escape(_)
escape(s) == IF s = <<>> THEN <<>> ELSE escapeChar(Head(s)) \o escape(Tail(s))

\* %Q on output: null for a NULL pointer, else the quoted, escaped string
printQ(str) ==
    IF str.null THEN <<"n", "u", "l", "l">> ELSE <<"\"">> \o escape(str.s) \o <<"\"">>

RECURSIVE unescape(_)
unescape(t) ==
    IF t = <<>> THEN <<>>
    ELSE IF Head(t) = "\\" /\ Len(t) >= 2
    THEN <<IF t[2] = "n" THEN "\n" ELSE t[2]>> \o unescape(Tail(Tail(t)))
    ELSE <<Head(t)>> \o unescape(Tail(t))

\* %Q on input: NULL for the null token, else a fresh copy of the unescaped string
scanQ(text) ==
    IF Head(text) # "\"" THEN NullStr ELSE Str(unescape(SubSeq(text, 2, Len(text) - 1)))

\* %B on output and on input
printB(b) == IF b THEN <<"t", "r", "u", "e">> ELSE <<"f", "a", "l", "s", "e">>
scanB(text) == text = <<"t", "r", "u", "e">>

\* %f on output: six decimals; the rate is kept as its count of millionths
printF(millionths) == <<"0", ".">> \o SubSeq(printInt(1000000 + millionths), 2, 7)

Member(key, text) == [key |-> key, colon |-> TRUE, text |-> text]
NoConfigFile == [exists |-> FALSE, members |-> <<>>]

\* config.c:40-50: the text json_fprintf is asked to print; bloom_fp_rate is
\* followed by a comma where its colon belongs
configDoc(c) ==
    [exists |-> TRUE,
     members |-> << Member("configFile", printQ(c.configFile)),
                    Member("workingDirectory", printQ(c.workingDir)),
                    Member("watchDirectory", printQ(c.watchDir)),
                    Member("pid", printInt(c.pid)),
                    Member("running", printB(c.running)),
                    Member("k_size", printInt(c.k_size)),
                    Member("sketch_size", printInt(c.sketch_size)),
                    [key |-> "bloom_fp_rate", colon |-> FALSE, text |-> printF(c.bloom_fp_rate)],
                    Member("bloom_max_elements", printInt(c.bloom_max_elements)) >>]

\* json_scanf walks the text once for each key of its format: the members up
\* to the first one that is not well formed reach its callback
Walked(file) ==
    {i \in 1 .. Len(file.members) : \A j \in 1 .. i : file.members[j].colon}
Scans(file, key) == \E i \in Walked(file) : file.members[i].key = key
Scanned(file, key) ==
    file.members[CHOOSE i \in Walked(file) :
                    /\ file.members[i].key = key
                    /\ \A j \in Walked(file) : file.members[j].key = key => i <= j].text

LoadKeys == {"configFile", "watchDirectory", "pid", "running"}

\* config.c:61: config_t c = { .pid = -1, .watchDir = NULL }, the rest zeroed
tmpConfig ==
    [configFile |-> NullStr, workingDir |-> NullStr, watchDir |-> NullStr, pid |-> -1,
     running |-> FALSE, k_size |-> 0, sketch_size |-> 0, bloom_fp_rate |-> 0,
     bloom_max_elements |-> 0]

\* config.c:67-79: scan the four keys into the tmp config, and when one or
\* more was found copy the four fields into the destination
loadConfig(config, file) ==
    LET status == Cardinality({k \in LoadKeys : Scans(file, k)})
        c == [tmpConfig EXCEPT
                !.configFile = IF Scans(file, "configFile")
                               THEN scanQ(Scanned(file, "configFile")) ELSE @,
                !.watchDir = IF Scans(file, "watchDirectory")
                             THEN scanQ(Scanned(file, "watchDirectory")) ELSE @,
                !.pid = IF Scans(file, "pid") THEN scanInt(Scanned(file, "pid")) ELSE @,
                !.running = IF Scans(file, "running")
                            THEN scanB(Scanned(file, "running")) ELSE @]
    IN  IF status < 1 THEN [ret |-> 1, config |-> config]
        ELSE [ret |-> 0,
              config |-> [config EXCEPT !.configFile = c.configFile, !.watchDir = c.watchDir,
                                        !.pid = c.pid, !.running = c.running]]

\* the paths, the strings and the records the two functions are followed with
Paths == {<<"f">>, <<"d", "\\", "g">>}
WatchDirs == {NullStr, Str(<<"w">>), Str(<<"\"", "w", "\n">>), Str(<<"\\", "n">>)}
MaxPidDigits == 2
ConfigPids == {-1, 7, 10 ^ (MaxPidDigits - 1) + 2}

\* config.c:8-22: what initConfig fills in (the defaults of config.h)
initConfig ==
    [configFile |-> Str(<<>>), workingDir |-> Str(<<"w", "k">>), watchDir |-> Str(<<"w">>),
     pid |-> -1, running |-> FALSE, k_size |-> 7, sketch_size |-> 128,
     bloom_fp_rate |-> 1000, bloom_max_elements |-> 100000]

Configs ==
    {[initConfig EXCEPT !.watchDir = w, !.pid = p, !.running = r] :
        w \in WatchDirs, p \in ConfigPids, r \in BOOLEAN}
\* the records loadConfig is given to fill: a fresh one, and one with other settings
Destinations ==
    {initConfig, [initConfig EXCEPT !.workingDir = Str(<<"x">>), !.k_size = 9, !.pid = 7]}
\* what a path holds before anything is written: nothing, an empty file, or a
\* JSON document with none of the keys
OtherFiles ==
    {NoConfigFile, [exists |-> TRUE, members |-> <<>>],
     [exists |-> TRUE, members |-> <<Member("k_size", printInt(7))>>]}

InitConfig ==
    /\ bigsi = bigsInit(NumBits, NumHashes)
    /\ disk = [metadata |-> [exists |-> FALSE, doc |-> <<>>], bitvectors |-> NoFile,
               colours |-> NoFile]
    /\ pc = "live"
    /\ call = [op |-> "bigsInit", ret |-> 0]
    /\ added = <<>>
    /\ post = [on |-> FALSE, ops |-> 0, added |-> FALSE, oob |-> FALSE]
    /\ orig = NoOrig
    /\ first = NoFirst
    /\ daemon = NoDaemon
    /\ threads = NoThreads
    /\ \E c \in Configs, d \in Destinations, o \in OtherFiles :
         conf = [alive |-> TRUE, config |-> c, dest |-> d, before |-> d,
                 files |-> [p \in Paths |-> o],
                 from |-> [p \in Paths |-> <<>>],
                 call |-> [op |-> "initConfig"]]

\* writeConfig(config, configFile), config.c:31-55.  json_fprintf may fail to
\* open the path; its result is dropped.  json_prettify_file changes the white
\* space of a well-formed document and puts back one that is not.
ConfigWrite ==
    /\ conf.alive
    /\ \E f \in Paths, opened \in BOOLEAN :
         LET c == [conf.config EXCEPT !.configFile = Str(f)]
         IN  conf' = [conf EXCEPT
                        !.config = c,
                        !.files[f] = IF opened THEN configDoc(c) ELSE @,
                        !.from[f] = IF opened THEN <<c>> ELSE @,
                        !.call = [op |-> "writeConfig", f |-> f, ret |-> 0, opened |-> opened]]
    /\ UNCHANGED <<bigsiVarsButConf, daemon>>

\* loadConfig(config, configFile), config.c:58-80.  json_fread returns NULL for
\* a file it cannot open and strlen(NULL) is undefined: the process dies, or
\* the scan finds nothing.
ConfigLoad ==
    /\ conf.alive
    /\ \E f \in Paths, dies \in BOOLEAN :
         LET file == conf.files[f]
             r == loadConfig(conf.dest, file)
         IN  /\ dies => ~file.exists
             /\ conf' = IF dies
                        THEN [conf EXCEPT !.alive = FALSE, !.before = conf.dest,
                                          !.call = [op |-> "loadConfig", f |-> f, ret |-> 0,
                                                    crashed |-> TRUE]]
                        ELSE [conf EXCEPT !.dest = r.config, !.before = conf.dest,
                                          !.call = [op |-> "loadConfig", f |-> f, ret |-> r.ret,
                                                    crashed |-> FALSE]]
    /\ UNCHANGED <<bigsiVarsButConf, daemon>>

NextConfig ==
    \/ ConfigWrite
    \/ ConfigLoad
SpecConfig == InitConfig /\ [][NextConfig]_vars

(***************************************************************************)
(* bigsQuery and bigsLookupColour called from several threads on one frozen *)
(* BIGSI, one statement group at a time.  Each thread has its own arguments *)
(* and locals (key, bv / seqID, hv, i, ret are automatic variables).        *)
(***************************************************************************)
\* a bigsQuery whose DBT bv is one buffer shared by all the threads
rowBufferShared(t) == 1

\* bigsi.c:372-376: `DBT key, bv` are locals of the call: each thread has its own
rowBuffer(t) == t

\* a return: the call's status and result stay with the caller, its bv is gone
Returned(t, ret, result) ==
    threads' = [threads EXCEPT ![t].pc = "returned", ![t].ret = ret, ![t].result = result,
                               ![rowBuffer(t)].row = bvInit(0)]

\* bigsi.c:350-376: the argument checks and the set-up of the locals
QueryEnter(t) ==
    /\ pc = "live"
    /\ threads[t].pc \in {"idle", "returned"}
    /\ \E q \in QueriesFor(bigsi), getFailAt \in {0, NumHashes} :
         LET th == [Idle EXCEPT !.op = "bigsQuery", !.arg = q, !.fault = getFailAt,
                                !.result = q.result, !.row = threads[t].row]
             zeroed == [threads EXCEPT ![rowBuffer(t)].row = bvInit(0)]
             err == IF q.nullArg # "none" THEN ERROR_NULL_ARGUMENT
                    ELSE IF ~bigsi.indexed THEN ERROR_BIGSI_UNINDEXED
                    ELSE IF q.len # bigsi.numHashes THEN ERROR_BIGSI_HASH_MISMATCH
                    ELSE IF q.result.capacity # bigsi.colourIterator
                    THEN ERROR_BIGSI_RESULT_MISMATCH
                    ELSE 0
         IN  threads' = IF err # 0
                        THEN [threads EXCEPT ![t] = [th EXCEPT !.pc = "returned", !.ret = err]]
                        ELSE [zeroed EXCEPT ![t] = [th EXCEPT !.pc = "fetch",
                                                              !.row = zeroed[t].row]]
    /\ UNCHANGED <<bigsi, disk, pc, call, added, post, orig, first, daemon, conf>>

\* bigsi.c:378-396: the hash value's location and the get into bv
QueryFetch(t) ==
    /\ threads[t].pc = "fetch"
    /\ LET th == threads[t]
           hv == hvLocation(th.arg.hashValues[th.i + 1], bigsi.numBits)
           got == /\ bigsi.bitvectors_dbp = "open"
                  /\ dbHas(disk.bitvectors, hv)
                  /\ th.fault # th.i + 1
       IN  IF ~got THEN Returned(t, -1, th.result)
           ELSE threads' = [threads EXCEPT ![t].pc = "merge",
                                           ![rowBuffer(t)].row = disk.bitvectors.kv[hv]]
    /\ UNCHANGED <<bigsi, disk, pc, call, added, post, orig, first, daemon, conf>>

\* bigsi.c:398-424: the empty-row exit, the OR or AND into the result, the
\* empty-result exit and the step to the next hash value
QueryMerge(t) ==
    /\ threads[t].pc = "merge"
    /\ LET th == threads[t]
           row == threads[rowBuffer(t)].row
           r2 == rowUpdate(th.i, th.result, row)
       IN  IF bvCount(row) = 0 THEN Returned(t, 0, emptyRowExit(th.result).result)
           ELSE IF ~bvBOROK(th.result, row)
           THEN Returned(t, IF th.i = 0 THEN ERROR_BIGSI_OR_FAIL ELSE ERROR_BIGSI_AND_FAIL,
                         th.result)
           ELSE IF th.i # 0 /\ bvCount(r2) = 0 THEN Returned(t, 0, r2)
           ELSE IF th.i + 1 >= Len(th.arg.hashValues) THEN Returned(t, 0, r2)
           ELSE threads' = [threads EXCEPT ![t].pc = "fetch", ![t].i = @ + 1,
                                           ![t].result = r2]
    /\ UNCHANGED <<bigsi, disk, pc, call, added, post, orig, first, daemon, conf>>

\* bigsi.c:446-477: the checks of bigsLookupColour and the set-up of its locals
LookupEnter(t) ==
    /\ pc = "live"
    /\ threads[t].pc \in {"idle", "returned"}
    /\ \E l \in LookupsFor(bigsi), env \in {"none", "get", "malloc"} :
         LET th == [Idle EXCEPT !.op = "bigsLookupColour", !.arg = l, !.fault = env,
                                !.result = NoResult, !.row = threads[t].row]
             refused == \/ ~bigsi.indexed
                        \/ colourOutOfRange(bigsi, l.colour)
                        \/ l.resultNull
         IN  threads' = [threads EXCEPT ![t] =
                            IF refused THEN [th EXCEPT !.pc = "returned", !.ret = -1]
                            ELSE [th EXCEPT !.pc = "get"]]
    /\ UNCHANGED <<bigsi, disk, pc, call, added, post, orig, first, daemon, conf>>

\* bigsi.c:479-493: the get into seqID and the copy into *result
LookupGet(t) ==
    /\ threads[t].pc = "get"
    /\ LET th == threads[t]
       IN  IF \/ th.fault = "get"
              \/ bigsi.colours_dbp # "open"
              \/ ~dbHas(disk.colours, th.arg.colour)
           THEN Returned(t, -1, NoResult)
           ELSE IF th.fault = "malloc" THEN Returned(t, -1, "NULL")
           ELSE Returned(t, 0, disk.colours.kv[th.arg.colour])
    /\ UNCHANGED <<bigsi, disk, pc, call, added, post, orig, first, daemon, conf>>

NextReaders ==
    \/ \E t \in Threads : QueryEnter(t)
    \/ \E t \in Threads : QueryFetch(t)
    \/ \E t \in Threads : QueryMerge(t)
    \/ \E t \in Threads : LookupEnter(t)
    \/ \E t \in Threads : LookupGet(t)
SpecReaders == InitLoaded /\ [][NextReaders]_vars

\* the shapes <<numBits, numHashes>> the self-check is followed on: fewer hashes
\* than bits, and more hashes than bits (the check's hash values run below 0)
MaxShapeBits == 3
CheckShapes == {<<2, 1>>, <<1, 2>>, <<2, 3>>, <<MaxShapeBits, MaxShapeBits + 1>>}

\* one or two sequences whose Bloom filters fit the shape, each with any bits set
ShapedBuilds(numBits, numHashes) ==
    LET bfs == {[numHashes |-> numHashes,
                 bitvector |-> [st |-> "ok", capacity |-> numBits, bits |-> bits]] :
                    bits \in (SUBSET (0 .. (numBits - 1))) \ {{}}}
    IN  {<<[id |-> "A", bf |-> f]>> : f \in bfs}
        \cup {<<[id |-> "A", bf |-> f], [id |-> "B", bf |-> g]>> : f \in bfs, g \in bfs}

\* bigsInit with one of the shapes, then one bigsAdd that succeeded
InitCheck ==
    \E shape \in CheckShapes :
        \E ps \in ShapedBuilds(shape[1], shape[2]) :
            /\ bigsi = bigsAdd(bigsInit(shape[1], shape[2]), ps, Len(ps), NoFault).bigsi
            /\ disk = [metadata |-> [exists |-> FALSE, doc |-> <<>>], bitvectors |-> NoFile,
                       colours |-> NoFile]
            /\ pc = "live"
            /\ call = [op |-> "bigsAdd", ret |-> 0]
            /\ added = ps
            /\ post = [on |-> FALSE, ops |-> 0, added |-> FALSE, oob |-> FALSE]
            /\ orig = NoOrig
            /\ first = NoFirst
            /\ daemon = NoDaemon
            /\ threads = NoThreads
            /\ conf = NoConf

\* the two operations that end with checkDB, and the bigsDestroy between them
NextCheck ==
    \/ BigsIndex
    \/ BigsDestroy
    \/ BigsLoad
SpecCheck == InitCheck /\ [][NextCheck]_vars

(***************************************************************************)
(* startDaemon (daemonize.c:51-151): the main thread, the SIGTERM handler,  *)
(* the watcher thread (startWatching, daemonize.c:38-47) and the worker     *)
(* pool.  daemon.main is the place of the main thread; daemon.watcher is    *)
(* "created" once pthread_create returned, "loop" inside fsw_start_monitor, *)
(* "stopping" once the monitor was told to stop, "finished" when the thread *)
(* function returned ("createdStop": told to stop before the loop began).   *)
(* exit(1) in any thread ends the process: daemon.main = "exited".          *)
(* daemon.config is the config_t in memory (pid, running), daemon.file the  *)
(* same two fields as the config file holds them, daemon.failed the setup   *)
(* steps that failed, daemon.status how the process ended.                  *)
(***************************************************************************)
SetupPlaces == {"setup", "writeConfig", "createPool", "setupWatcher", "startThread"}
Running == daemon.main \notin SetupPlaces \cup {"exited", "returned"}
Exit == daemon' = [daemon EXCEPT !.main = "exited", !.status = "exit 1"]
Logged(event) == Append(daemon.log, event)
Pids == 1 .. MaxPid

\* daemonize.c:58-63 and 154-213: fork, setsid, fork: the daemon is the
\* grandchild, with a pid of its own; a failure is exit(1) or exit(EXIT_FAILURE)
Daemonize ==
    /\ daemon.main = "setup"
    /\ \/ \E p \in Pids : daemon' = [daemon EXCEPT !.main = "writeConfig", !.pid = p]
       \/ daemon' = [daemon EXCEPT !.main = "exited", !.status = "exit 1",
                                   !.failed = @ \cup {"daemonize"}]
    /\ UNCHANGED bigsiVars

\* what writeConfig (config.c:31-55) leaves in the file: json_fprintf wrote the
\* record or, failing, nothing; its return value is dropped and writeConfig
\* returns 0 either way
writeConfig(config, file, written) == IF written THEN config ELSE file

\* daemonize.c:73-85: pid and running = true are put in the config, which is
\* written to the config file
WriteConfig ==
    /\ daemon.main = "writeConfig"
    /\ \E written \in BOOLEAN :
         LET c == [pid |-> daemon.pid, running |-> TRUE]
         IN  daemon' = [daemon EXCEPT !.main = "createPool", !.config = c,
                                      !.file = writeConfig(c, @, written),
                                      !.failed = IF written THEN @ ELSE @ \cup {"writeConfig"}]
    /\ UNCHANGED bigsiVars

\* daemonize.c:87-93: tpool_create, whose result is not tested, and catchSigterm
CreatePool ==
    /\ daemon.main = "createPool"
    /\ \/ daemon' = [daemon EXCEPT !.main = "setupWatcher", !.pool = "up", !.handler = TRUE]
       \/ daemon' = [daemon EXCEPT !.main = "setupWatcher", !.pool = "NULL", !.handler = TRUE,
                                   !.failed = @ \cup {"tpool_create"}]
    /\ UNCHANGED bigsiVars

\* daemonize.c:95-113: a failing fsw_init_library is logged and no more; a
\* failing fsw_add_path or fsw_set_callback is exit(1)
SetupWatcher ==
    /\ daemon.main = "setupWatcher"
    /\ \/ daemon' = [daemon EXCEPT !.main = "startThread", !.session = "open"]
       \/ daemon' = [daemon EXCEPT !.main = "startThread", !.session = "open",
                                   !.failed = @ \cup {"fsw_init_library"}]
       \/ \E f \in {"fsw_add_path", "fsw_set_callback"} :
             daemon' = [daemon EXCEPT !.main = "exited", !.status = "exit 1",
                                      !.failed = @ \cup {f}]
    /\ UNCHANGED bigsiVars

\* daemonize.c:115-120: the watcher thread is created; a failure is exit(1)
StartThread ==
    /\ daemon.main = "startThread"
    /\ \/ daemon' = [daemon EXCEPT !.main = "check", !.watcher = "created"]
       \/ daemon' = [daemon EXCEPT !.main = "exited", !.status = "exit 1",
                                   !.failed = @ \cup {"pthread_create"}]
    /\ UNCHANGED bigsiVars

\* daemonize.c:24-27: the handler sets the flag; a pause() in progress returns
SigTermHandler ==
    /\ daemon.handler /\ daemon.main \notin {"exited", "returned"}
    /\ daemon.signals < MaxSignals
    /\ daemon' = [daemon EXCEPT !.done = TRUE, !.signals = @ + 1,
                                !.main = IF @ = "paused" THEN "check" ELSE @]
    /\ UNCHANGED bigsiVars

\* a SIGTERM that reaches the daemon process before catchSigterm ran
\* (daemonize.c:58-93) meets the default disposition: the process is killed
SigTermDefault ==
    /\ ~daemon.handler /\ daemon.main \in {"writeConfig", "createPool"}
    /\ daemon.signals < MaxSignals
    /\ daemon' = [daemon EXCEPT !.main = "exited", !.status = "killed", !.signals = @ + 1]
    /\ UNCHANGED bigsiVars

\* daemonize.c:123: while (!done)
CheckDone ==
    /\ daemon.main = "check"
    /\ daemon' = IF daemon.done
                 THEN [daemon EXCEPT !.main = "stop", !.log = Logged("flag observed")]
                 ELSE [daemon EXCEPT !.main = "toPause"]
    /\ UNCHANGED bigsiVars

\* daemonize.c:124: pause() blocks until a signal handler has run
Pause ==
    /\ daemon.main = "toPause"
    /\ daemon' = [daemon EXCEPT !.main = "paused"]
    /\ UNCHANGED bigsiVars

\* daemonize.c:128-131: fsw_stop_monitor asks the monitor loop to end
StopMonitor ==
    /\ daemon.main = "stop"
    /\ \/ daemon' = [daemon EXCEPT !.main = "destroySession",
                                    !.watcher = CASE @ = "loop" -> "stopping"
                                                  [] @ = "created" -> "createdStop"
                                                  [] OTHER -> @,
                                    !.log = Logged("watcher stopped")]
       \/ Exit
    /\ UNCHANGED bigsiVars

\* daemonize.c:132-136: sleep(5), then fsw_destroy_session
DestroySession ==
    /\ daemon.main = "destroySession"
    /\ \/ daemon' = [daemon EXCEPT !.main = "join", !.session = "destroyed"]
       \/ Exit
    /\ UNCHANGED bigsiVars

\* a pthread_join that returns while the watcher thread is still running
PthreadJoinNoWait ==
    /\ daemon.main = "join"
    /\ \/ daemon' = [daemon EXCEPT !.main = "wait", !.log = Logged("watcher joined")]
       \/ Exit
    /\ UNCHANGED bigsiVars

\* daemonize.c:139-142: pthread_join returns 0 once startWatching has returned
PthreadJoin ==
    /\ daemon.main = "join"
    /\ \/ /\ daemon.watcher = "finished"
          /\ daemon' = [daemon EXCEPT !.main = "wait", !.log = Logged("watcher joined")]
       \/ Exit
    /\ UNCHANGED bigsiVars

\* daemonize.c:145: tpool_wait blocks until the queue is empty and no worker is
\* busy (there is neither with no pool)
TpoolWait ==
    /\ daemon.main = "wait"
    /\ daemon.queue = 0 /\ daemon.busy = 0
    /\ daemon' = [daemon EXCEPT !.main = "destroy", !.log = Logged("pool wait returned")]
    /\ UNCHANGED bigsiVars

\* daemonize.c:148-150: tpool_destroy ends the workers; startDaemon returns 0
TpoolDestroy ==
    /\ daemon.main = "destroy"
    /\ daemon' = [daemon EXCEPT !.main = "returned", !.status = "return 0",
                                !.pool = IF @ = "up" THEN "destroyed" ELSE @,
                                !.log = Logged("pool destroyed")]
    /\ UNCHANGED bigsiVars

\* daemonize.c:38-40: the watcher thread enters fsw_start_monitor; a request to
\* stop made before that is either kept or lost
WatcherStart ==
    /\ Running
    /\ \/ daemon.watcher = "created" /\ daemon' = [daemon EXCEPT !.watcher = "loop"]
       \/ /\ daemon.watcher = "createdStop"
          /\ \E w \in {"loop", "stopping"} : daemon' = [daemon EXCEPT !.watcher = w]
    /\ UNCHANGED bigsiVars

\* the monitor loop reports an event: watcherCallback submits a task to the pool
\* it was given (daemonize.c:110); lateSubmit records a submission to a pool
\* that tpool_destroy had released
WatcherCallback ==
    /\ Running
    /\ daemon.watcher \in {"loop", "stopping"}
    /\ daemon.events < MaxEvents
    /\ \/ /\ daemon.pool = "up"
          /\ daemon' = [daemon EXCEPT !.events = @ + 1, !.queue = @ + 1]
       \/ /\ daemon.pool = "destroyed"
          /\ daemon' = [daemon EXCEPT !.events = @ + 1, !.lateSubmit = TRUE]
       \/ /\ daemon.pool = "NULL"
          /\ \/ daemon' = [daemon EXCEPT !.events = @ + 1]
             \/ daemon' = [daemon EXCEPT !.main = "exited", !.status = "crash"]
    /\ UNCHANGED bigsiVars

\* daemonize.c:40-46: fsw_start_monitor returns: FSW_OK after a stop, and the
\* thread function returns; anything else is exit(1)
WatcherReturn ==
    /\ Running
    /\ \/ daemon.watcher = "stopping" /\ daemon' = [daemon EXCEPT !.watcher = "finished"]
       \/ daemon.watcher \in {"loop", "stopping"} /\ Exit
    /\ UNCHANGED bigsiVars

\* a worker of the pool takes the task at the head of the queue
WorkerTake ==
    /\ Running
    /\ daemon.pool = "up" /\ daemon.queue > 0 /\ daemon.busy < NUM_THREADS
    /\ daemon' = [daemon EXCEPT !.queue = @ - 1, !.busy = @ + 1]
    /\ UNCHANGED bigsiVars

\* a worker finishes its task
WorkerDone ==
    /\ Running
    /\ daemon.busy > 0
    /\ daemon' = [daemon EXCEPT !.busy = @ - 1]
    /\ UNCHANGED bigsiVars

NextDaemon ==
    \/ Daemonize
    \/ WriteConfig
    \/ CreatePool
    \/ SetupWatcher
    \/ StartThread
    \/ SigTermHandler
    \/ SigTermDefault
    \/ CheckDone
    \/ Pause
    \/ StopMonitor
    \/ DestroySession
    \/ PthreadJoin
    \/ TpoolWait
    \/ TpoolDestroy
    \/ WatcherStart
    \/ WatcherCallback
    \/ WatcherReturn
    \/ WorkerTake
    \/ WorkerDone
SpecDaemon == Init /\ [][NextDaemon]_vars

\* the step is not a failure that ends the process
Survives == daemon'.main # "exited"

\* fair scheduling: a thread that can go on without a failure goes on, and tasks
\* are finite; failures, events and the delivery of signals are left to the
\* environment
DaemonFairness ==
    /\ WF_vars(Daemonize /\ Survives) /\ WF_vars(WriteConfig) /\ WF_vars(CreatePool)
    /\ WF_vars(SetupWatcher /\ Survives) /\ WF_vars(StartThread /\ Survives)
    /\ WF_vars(CheckDone) /\ WF_vars(Pause)
    /\ WF_vars(StopMonitor /\ Survives) /\ WF_vars(DestroySession /\ Survives)
    /\ WF_vars(PthreadJoin /\ Survives)
    /\ WF_vars(TpoolWait) /\ WF_vars(TpoolDestroy)
    /\ WF_vars(WatcherStart) /\ WF_vars(WatcherReturn /\ Survives)
    /\ WF_vars(WorkerTake) /\ WF_vars(WorkerDone)
SpecDaemonFair == SpecDaemon /\ DaemonFairness

(***************************************************************************)
(* Properties                                                               *)
(***************************************************************************)
\* the BIGSI came from bigsInit, neither bigsIndex nor bigsLoad was called, and
\* no store went past the end of a build array
Building == pc = "live" /\ ~post.on /\ ~post.oob

\* the store handles of a frozen BIGSI are open
Queryable(b) == b.indexed /\ b.bitvectors_dbp = "open" /\ b.colours_dbp = "open"

\* the colours whose bit is set in every row the hash list selects
RowsAnd(b, dsk, hashValues) ==
    {c \in 0 .. (b.colourIterator - 1) :
        \A k \in 1 .. Len(hashValues) :
            c \in dsk.bitvectors.kv[hvLocation(hashValues[k], b.numBits)].bits}

\* C1: after bigsIndex returns success, bit c of the row stored under key i is
\* bit i of the Bloom filter added as colour c, for every colour and every bit
\* position, and every stored row has capacity colourIterator.
C1_TranspositionCorrect ==
    (call.op = "bigsIndex" /\ call.ret = 0) =>
        /\ Len(added) = bigsi.colourIterator
        /\ \A i \in 0 .. (bigsi.numBits - 1) :
             /\ dbHas(disk.bitvectors, i)
             /\ disk.bitvectors.kv[i].capacity = bigsi.colourIterator
             /\ \A c \in 0 .. (bigsi.colourIterator - 1) :
                  (c \in disk.bitvectors.kv[i].bits) <=> (i \in added[c + 1].bf.bitvector.bits)

\* bigsIndex succeeded on two colours or more whose filters differ
C1_Witness ==
    /\ call.op = "bigsIndex" /\ call.ret = 0
    /\ bigsi.colourIterator >= 2
    /\ \E i \in 0 .. (bigsi.numBits - 1) :
         disk.bitvectors.kv[i].bits \notin {{}, 0 .. (bigsi.colourIterator - 1)}

\* C2: on a frozen BIGSI, for a hash list of length numHashes and an all-zero
\* result of capacity colourIterator, bigsQuery returns success and the result
\* holds exactly the colours set in every selected row.
C2_QueryIsRowsAnd ==
    (/\ call.op = "bigsQuery" /\ call.getFailAt = 0
     /\ pc = "live" /\ Queryable(bigsi) /\ ~post.added
     /\ call.q.nullArg = "none"
     /\ call.q.len = bigsi.numHashes
     /\ call.q.result.capacity = bigsi.colourIterator)
    => (call.ret = 0 /\ call.result.bits = RowsAnd(bigsi, disk, call.q.hashValues))

\* C3: bigsLoad, after bigsDestroy persisted a frozen BIGSI that saw no bigsAdd
\* since it was frozen, succeeds and yields a frozen BIGSI with the same numBits,
\* numHashes and colourIterator, on which every bigsQuery and every
\* bigsLookupColour returns what it returned on the original.
C3_RoundTrip ==
    (call.op = "bigsLoad" /\ call.fail = "none" /\ orig.set /\ ~orig.addedSinceFrozen) =>
        /\ call.ret = 0 /\ pc = "live" /\ bigsi.indexed
        /\ bigsi.numBits = orig.bigsi.numBits
        /\ bigsi.numHashes = orig.bigsi.numHashes
        /\ bigsi.colourIterator = orig.bigsi.colourIterator
        /\ \A q \in QueriesFor(bigsi) :
             bigsQuery(bigsi, disk, q, 0) = bigsQuery(orig.bigsi, orig.disk, q, 0)
        /\ \A l \in LookupsFor(bigsi) :
             bigsLookupColour(bigsi, disk, l, "none")
                = bigsLookupColour(orig.bigsi, orig.disk, l, "none")

\* a BIGSI of two colours or more came back from bigsLoad
C3_Witness ==
    /\ call.op = "bigsLoad" /\ call.ret = 0
    /\ orig.set /\ ~orig.addedSinceFrozen
    /\ bigsi.colourIterator >= 2
    /\ \E q \in QueriesFor(bigsi) : bigsQuery(bigsi, disk, q, 0).result.bits # {}

\* what a bigsAdd step leaves of the entries the BIGSI held before it
KeepsEntries ==
    /\ \A c \in 0 .. (bigsi.colourIterator - 1) :
         /\ bigsi'.colourArray[c] = bigsi.colourArray[c]
         /\ bigsi'.tmpBitVectors[c] = bigsi.tmpBitVectors[c]
    /\ \A s \in DOMAIN bigsi.idChecker :
         s \in DOMAIN bigsi'.idChecker /\ bigsi'.idChecker[s] = bigsi.idChecker[s]

KeepsBuildState ==
    /\ bigsi'.colourIterator = bigsi.colourIterator
    /\ bigsi'.idChecker = bigsi.idChecker
    /\ bigsi'.colourArray = bigsi.colourArray
    /\ bigsi'.tmpBitVectors = bigsi.tmpBitVectors

\* a bigsAdd step on a building BIGSI whose map holds a sequence ID of idChecker
DupStep == Building /\ call'.op = "bigsAdd" /\ call'.dupAt # 0 /\ pc' = "live"

\* C4 as stated: a bigsAdd whose map holds a sequence ID already in idChecker
\* returns an error and leaves colourIterator, idChecker, colourArray and
\* tmpBitVectors as they were, wherever the sequence ID stands in the map.
C4_DupLeavesStateUnchanged ==
    [][DupStep => (call'.ret # 0 /\ KeepsBuildState)]_vars

\* C4 amended: such a bigsAdd returns an error and keeps every entry the BIGSI
\* held; it gives a colour to no pair from the duplicate on, so the state is
\* unchanged when the duplicate is the first pair map_next yields.
C4_DupRejected ==
    [][DupStep =>
          /\ call'.ret # 0
          /\ KeepsEntries
          /\ bigsi'.colourIterator >= bigsi.colourIterator
          /\ bigsi'.colourIterator <= bigsi.colourIterator + call'.dupAt - 1
          /\ (call'.dupAt = 1 => KeepsBuildState)]_vars

\* a map whose second pair is the duplicate was refused after its first pair
\* was given a colour
C4_Witness ==
    /\ Building /\ call.op = "bigsAdd" /\ call.dupAt = 2 /\ call.ret # 0
    /\ bigsi.colourIterator = call.k + 1

\* C5: once bigsIndex has returned success or bigsLoad returned a BIGSI, no
\* bigsAdd, bigsIndex, bigsQuery or bigsLookupColour changes colourIterator,
\* numBits or numHashes, and bigsAdd returns an error.
C5_FrozenImmutable ==
    [][(/\ call.op \in {"bigsIndex", "bigsLoad"} /\ call.ret = 0 /\ pc = "live"
        /\ call'.op \in {"bigsAdd", "bigsIndex", "bigsQuery", "bigsLookupColour"})
       => /\ bigsi'.colourIterator = bigsi.colourIterator
          /\ bigsi'.numBits = bigsi.numBits
          /\ bigsi'.numHashes = bigsi.numHashes
          /\ (call'.op = "bigsAdd" => call'.ret # 0)]_vars

\* C6: colourIterator <= MAX_COLOURS in every state bigsAdd calls reach.
C6_ColourLimit == Building => bigsi.colourIterator <= MAX_COLOURS

\* C7: a bigsAdd that returns success for a map of n pairs, starting from
\* colourIterator = k, ends with colourIterator = k + n; every sequence ID of
\* the map is in idChecker with a colour of its own in k .. k+n-1, colourArray
\* holds the sequence ID and tmpBitVectors the bits of its filter under that
\* colour; the entries below k are unchanged.
C7_AddEffect ==
    [][(Building /\ call'.op = "bigsAdd" /\ call'.ret = 0) =>
          LET k == bigsi.colourIterator
              m == call'.id2bf
              n == Len(m)
              colourOf(j) == bigsi'.idChecker[m[j].id]
          IN  /\ bigsi'.colourIterator = k + n
              /\ \A j \in 1 .. n :
                   /\ m[j].id \in DOMAIN bigsi'.idChecker
                   /\ colourOf(j) \in k .. (k + n - 1)
                   /\ bigsi'.colourArray[colourOf(j)] = m[j].id
                   /\ bigsi'.tmpBitVectors[colourOf(j)].st = "ok"
                   /\ bigsi'.tmpBitVectors[colourOf(j)].bits = m[j].bf.bitvector.bits
              /\ \A i, j \in 1 .. n : i # j => colourOf(i) # colourOf(j)
              /\ KeepsEntries]_vars

\* a pair was added to a BIGSI that held one colour
C7_Witness ==
    /\ Building /\ call.op = "bigsAdd" /\ call.ret = 0
    /\ call.k = 1 /\ Len(call.id2bf) = 1

\* C8: while building, every tmpBitVectors[c] below colourIterator has capacity
\* numBits, a bit set, and the bits of a filter with the BIGSI's numHashes; a
\* bigsAdd whose map holds a pair with an empty filter, another numHashes or
\* another capacity returns an error, and no such pair is given a colour.
C8_Compatible ==
    Building =>
        /\ Len(added) = bigsi.colourIterator
        /\ \A c \in 0 .. (bigsi.colourIterator - 1) :
             /\ bigsi.tmpBitVectors[c].st = "ok"
             /\ bigsi.tmpBitVectors[c].capacity = bigsi.numBits
             /\ bvCount(bigsi.tmpBitVectors[c]) > 0
             /\ bigsi.tmpBitVectors[c].bits = added[c + 1].bf.bitvector.bits
             /\ added[c + 1].bf.bitvector.capacity = bigsi.numBits
             /\ added[c + 1].bf.numHashes = bigsi.numHashes
        /\ (call.op = "bigsAdd" /\ call.badIDs # {}) => call.ret # 0

\* a map was refused at a pair that does not fit, after an earlier pair of the
\* map was given a colour
C8_Witness ==
    /\ Building /\ call.op = "bigsAdd" /\ call.ret # 0
    /\ call.badIDs # {} /\ call.dupAt = 0
    /\ bigsi.colourIterator = call.k + 1

\* C9: while building, after successful and failing bigsAdd calls alike, no
\* two colours below colourIterator have the same sequence ID in colourArray.
C9_UniqueIDs ==
    Building =>
        \A c, d \in 0 .. (bigsi.colourIterator - 1) :
            /\ bigsi.colourArray[c] \in SeqIDs
            /\ c # d => bigsi.colourArray[c] # bigsi.colourArray[d]

\* a bigsAdd was refused for a sequence ID the BIGSI of two colours or more held
C9_Witness ==
    /\ Building /\ call.op = "bigsAdd" /\ call.ret # 0 /\ call.dupAt # 0
    /\ bigsi.colourIterator >= 2

\* C10: after bigsAdd returns an error, idChecker has exactly colourIterator
\* entries and every colour below colourIterator has its sequence ID in
\* colourArray, its bit vector in tmpBitVectors and its colour in idChecker.
C10_ConsistentAfterReject ==
    (Building /\ call.op = "bigsAdd" /\ call.ret # 0) =>
        /\ Cardinality(DOMAIN bigsi.idChecker) = bigsi.colourIterator
        /\ \A c \in 0 .. (bigsi.colourIterator - 1) :
             /\ bigsi.colourArray[c] \in DOMAIN bigsi.idChecker
             /\ bigsi.idChecker[bigsi.colourArray[c]] = c
             /\ bigsi.tmpBitVectors[c].st = "ok"

\* C11: bigsIndex returns an error and leaves the BIGSI and both stores as they
\* were when colourIterator < 1 or the BIGSI is already indexed; the indexed
\* flag of a BIGSI never goes back from true to false.
C11_ExactlyOneFreeze ==
    [][/\ (call'.op = "bigsIndex" /\ (bigsi.colourIterator < 1 \/ bigsi.indexed))
            => (call'.ret # 0 /\ bigsi' = bigsi /\ disk' = disk)
       /\ (pc = "live" /\ pc' = "live" /\ bigsi.indexed) => bigsi'.indexed]_vars

\* bigsIndex was refused on a BIGSI that was indexed before, with its stores
\* in place
C11_Witness ==
    /\ call.op = "bigsIndex" /\ call.ret # 0 /\ call.fail = "none"
    /\ pc = "live" /\ bigsi.indexed /\ bigsi.colourIterator >= 1
    /\ dbHas(disk.bitvectors, 0)

\* C12: whenever bigsIndex returns an error on a BIGSI that was not indexed (a
\* store could not be opened, a row or a colour could not be put, or the check
\* of the stores failed), the BIGSI is not indexed afterwards.
C12_IndexedOnlyOnSuccess ==
    [][(call'.op = "bigsIndex" /\ call'.ret # 0 /\ ~bigsi.indexed) => ~bigsi'.indexed]_vars

\* the error bigsQuery owes its arguments (0: none)
ArgError(b, q) ==
    IF q.nullArg # "none" THEN ERROR_NULL_ARGUMENT
    ELSE IF ~b.indexed THEN ERROR_BIGSI_UNINDEXED
    ELSE IF q.len # b.numHashes THEN ERROR_BIGSI_HASH_MISMATCH
    ELSE IF q.result.capacity # b.colourIterator THEN ERROR_BIGSI_RESULT_MISMATCH
    ELSE 0

\* C13: bigsQuery returns the null-argument error when hashValues or result is
\* NULL, otherwise the unindexed error, otherwise the hash-mismatch error when
\* len # numHashes, otherwise the result-mismatch error when the capacity of
\* result is not colourIterator; in each case the result vector, the BIGSI and
\* the stores are as before and no row is fetched (a get that would fail is
\* not noticed).
C13_QueryArgErrors ==
    [][(call'.op = "bigsQuery" /\ ArgError(bigsi, call'.q) # 0) =>
          /\ call'.ret = ArgError(bigsi, call'.q)
          /\ call'.result = call'.q.result
          /\ bigsi' = bigsi /\ disk' = disk]_vars

\* a query with a short hash list and a result of the wrong capacity was
\* refused for its hash list, on an indexed BIGSI whose first get would fail
C13_Witness ==
    /\ call.op = "bigsQuery" /\ call.ret = ERROR_BIGSI_HASH_MISMATCH
    /\ call.q.result.capacity # bigsi.colourIterator
    /\ call.getFailAt = 1
    /\ pc = "live" /\ Queryable(bigsi)

\* C14: bigsLookupColour returns an error and writes no result when the BIGSI
\* is not indexed, when colour < 0 and when colour >= colourIterator, the
\* colour colourIterator itself included.
C14_LookupRejects ==
    (/\ call.op = "bigsLookupColour"
     /\ pc = "live"
     /\ (~bigsi.indexed \/ call.l.colour < 0 \/ call.l.colour >= bigsi.colourIterator))
    => (call.ret # 0 /\ call.result = NoResult)

\* C15: on an indexed BIGSI that saw no bigsAdd since bigsIndex froze it, for
\* every colour c in 0 .. colourIterator-1, bigsLookupColour (given a result
\* pointer, with no failure of the store or of malloc) returns 0 and the result
\* is the sequence ID that bigsAdd recorded for colour c during the build.
C15_LookupReturnsID ==
    (/\ call.op = "bigsLookupColour"
     /\ pc = "live" /\ bigsi.indexed /\ ~post.added
     /\ call.fail = "none" /\ ~call.l.resultNull
     /\ call.l.colour \in 0 .. (bigsi.colourIterator - 1))
    => (call.ret = 0 /\ call.result = added[call.l.colour + 1].id)

\* the last colour of a loaded BIGSI of two colours or more was looked up
C15_Witness ==
    /\ call.op = "bigsLookupColour" /\ call.ret = 0
    /\ pc = "live" /\ bigsi.indexed /\ ~post.added /\ orig.set
    /\ bigsi.colourIterator >= 2
    /\ call.l.colour = bigsi.colourIterator - 1
    /\ call.result = added[bigsi.colourIterator].id

\* the colours the query loop reports for a hash list, started from an
\* all-zero result of capacity colourIterator
Reported(hashValues) ==
    bigsQueryLoop(bigsi, disk, hashValues, 0, bvInit(bigsi.colourIterator), 0).result.bits

\* the hash lists of one position or more, up to numHashes positions
HashPrefixes == UNION {[1 .. n -> HashValues] : n \in 1 .. NumHashes}

\* C16: on every indexed BIGSI, for every hash list h of one position or more
\* (bigsInit asserts numHashes > 0) and every list h' made of h and one more
\* hash value, the colours the query loop reports for h' are among those it
\* reports for h, so the popcount of the result does not increase.
C16_QueryMonotone ==
    (pc = "live" /\ Queryable(bigsi)) =>
        \A h \in HashPrefixes : \A v \in HashValues :
            /\ Reported(Append(h, v)) \subseteq Reported(h)
            /\ Cardinality(Reported(Append(h, v))) <= Cardinality(Reported(h))

\* bigsQuery reported some colours for its hash list, and fewer than the query
\* loop reports for the list without its last position
C16_Witness ==
    /\ call.op = "bigsQuery" /\ call.ret = 0
    /\ pc = "live" /\ Queryable(bigsi)
    /\ call.result.bits # {}
    /\ call.result.bits = Reported(call.q.hashValues)
    /\ Len(call.q.hashValues) >= 2
    /\ LET h == SubSeq(call.q.hashValues, 1, Len(call.q.hashValues) - 1)
       IN  call.result.bits # Reported(h) /\ call.result.bits \subseteq Reported(h)

C19_LoadNeedsFiles ==
    [][/\ call'.op = "bigsLoad" =>
            /\ ~filesAccessible(disk) => (call'.ret # 0 /\ pc' = "none")
            /\ disk' = disk
       /\ (/\ call'.op = "bigsIndex"
           /\ ~indexRefused(bigsi)
           /\ call'.fail \notin {"openColours", "openBitvectors"})
            => (disk'.bitvectors.exists /\ disk'.colours.exists)]_vars

\* bigsLoad failed, with nothing else going wrong, in a directory where
\* bigsIndex had created the colours store but not the bit vector store
C19_Witness ==
    /\ call.op = "bigsLoad" /\ call.ret # 0 /\ call.fail = "none"
    /\ pc = "none"
    /\ disk.colours.exists /\ ~disk.bitvectors.exists /\ ~disk.metadata.exists

\* the shutdown events in the order startDaemon is to produce them
ShutdownOrder ==
    <<"flag observed", "watcher stopped", "watcher joined", "pool wait returned",
      "pool destroyed">>

\* C20: the shutdown events of startDaemon occur in the order: termination
\* flag observed set, watcher stopped, watcher thread joined, worker pool wait
\* returned (queue empty, no worker busy), worker pool destroyed; a startDaemon
\* that returns went through all five; and while the pool is waited on or
\* destroyed the watcher thread has finished, so that no task is submitted
\* after tpool_wait returned or to a destroyed pool.
C20_ShutdownOrder ==
    /\ \E n \in 0 .. Len(ShutdownOrder) : daemon.log = SubSeq(ShutdownOrder, 1, n)
    /\ daemon.main = "returned" => daemon.log = ShutdownOrder
    /\ daemon.main \in {"wait", "destroy", "returned"} => daemon.watcher = "finished"
    /\ daemon.main \in {"destroy", "returned"} => (daemon.queue = 0 /\ daemon.busy = 0)
    /\ ~daemon.lateSubmit

\* startDaemon returned after the watcher had submitted every task it could,
\* the last while SIGTERM had already been delivered twice
C20_Witness ==
    /\ daemon.main = "returned"
    /\ daemon.pool = "destroyed" /\ daemon.session = "destroyed"
    /\ daemon.events = MaxEvents
    /\ daemon.signals = MaxSignals
    /\ daemon.log = ShutdownOrder

\* C21: once SIGTERM has been delivered to the daemon, its handler installed,
\* under fair scheduling of the threads the main thread eventually leaves its
\* wait loop (the first thing the shutdown needs: the watcher is stopped and
\* the pool drained and destroyed only after that), however the delivery falls
\* between the test of the flag and pause().
C21_ShutdownLive ==
    (daemon.signals > 0) ~> (daemon.main \notin {"check", "toPause", "paused"})

\* C22: when the process ends after the shutdown has begun (the flag was
\* observed set) -- startDaemon returned, or a failing step of the shutdown
\* called exit -- the worker pool that was created has been destroyed, and the
\* process that ended on a failure did not end with status 0.
C22_PoolReleasedAtExit ==
    (daemon.main \in {"exited", "returned"} /\ daemon.log # <<>>) =>
        /\ daemon.pool # "up"
        /\ daemon.main = "exited" => daemon.status # "return 0"

\* the RUNNING state: the main thread is in its wait loop
InWaitLoop == daemon.main \in {"check", "toPause", "paused"}

\* C23: when a setup step of startDaemon has failed (daemonize, writing the
\* config file, tpool_create, fsw_init_library, fsw_add_path,
\* fsw_set_callback, pthread_create) the main thread never reaches its wait
\* loop, and the process that has ended did so with a non-zero status.
C23_SetupFailureFatal ==
    daemon.failed # {} =>
        /\ ~InWaitLoop
        /\ daemon.main \in {"exited", "returned"} => daemon.status # "return 0"

\* C24: whenever the daemon is in the RUNNING state (pool created, watcher
\* thread started, main thread in its wait loop) the config file holds the
\* daemon's own pid and running = true; and from the moment the pool exists or
\* the watcher thread was created, the config in memory holds them.
C24_Handshake ==
    /\ (InWaitLoop /\ daemon.pool = "up") =>
          daemon.file = [pid |-> daemon.pid, running |-> TRUE]
    /\ (daemon.pool # "none" \/ daemon.watcher # "none") =>
          daemon.config = [pid |-> daemon.pid, running |-> TRUE]

\* C25: once startDaemon has returned after the termination signal (STOPPED),
\* the config file holds running = false.
C25_RunningCleared ==
    (daemon.main = "returned" /\ daemon.signals > 0) => ~daemon.file.running

\* the colours left in the result after the rows at positions 1 .. k were merged
RECURSIVE Merged(_, _, _, _)
Merged(b, dsk, q, k) ==
    IF k = 0 THEN q.result.bits
    ELSE LET row == dsk.bitvectors.kv[hvLocation(q.hashValues[k], b.numBits)].bits
         IN  IF k = 1 THEN Merged(b, dsk, q, 0) \cup row ELSE Merged(b, dsk, q, k - 1) \cap row

\* the loop of bigsQuery reaches position k and fetches an empty row there
FetchesEmptyRowAt(b, dsk, q, k) ==
    /\ k \in 1 .. Len(q.hashValues)
    /\ dsk.bitvectors.kv[hvLocation(q.hashValues[k], b.numBits)].bits = {}
    /\ \A j \in 1 .. (k - 1) :
         /\ dsk.bitvectors.kv[hvLocation(q.hashValues[j], b.numBits)].bits # {}
         /\ j > 1 => Merged(b, dsk, q, j) # {}

\* C29: whenever bigsQuery fetches an empty row at any position of the hash
\* list, also after earlier rows were merged, it returns success and no bit of
\* the result is set.
C29_EmptyRowEmptyResult ==
    (/\ call.op = "bigsQuery" /\ call.getFailAt = 0
     /\ pc = "live" /\ Queryable(bigsi) /\ ~post.added
     /\ call.q.nullArg = "none"
     /\ call.q.len = bigsi.numHashes
     /\ call.q.result.capacity = bigsi.colourIterator
     /\ \E k \in 1 .. Len(call.q.hashValues) :
          FetchesEmptyRowAt(bigsi, disk, call.q, k))
    => (call.ret = 0 /\ call.result.bits = {})

\* the query the self-check is said to issue: the hash values numBits-1 down to
\* numBits-numHashes, with a fresh all-zero result of capacity colourIterator
SelfCheckQuery(b) ==
    [nullArg |-> "none",
     hashValues |-> [i \in 1 .. b.numHashes |-> b.numBits - i],
     len |-> b.numHashes,
     result |-> bvInit(b.colourIterator)]

\* the places where the environment may fail the store read of the check
SelfCheckFaults(b, fail) == IF fail = "get" THEN {1, b.numHashes} ELSE {0}

\* C30: bigsIndex after writing and bigsLoad after opening issue one bigsQuery
\* with the hash values numBits-1 .. numBits-numHashes and a fresh all-zero
\* result of capacity colourIterator; the operation succeeds exactly when that
\* query returns 0 (an empty result is healthy), and every position probed lies
\* in [0, numBits), also when numHashes > numBits.
C30_StoreSelfCheck ==
    [][((call'.op = "bigsIndex" /\ ~indexRefused(bigsi) /\ bigsi'.indexed)
        \/ (call'.op = "bigsLoad" /\ bigsi'.indexed))
       => LET q == SelfCheckQuery(bigsi')
          IN  /\ \E at \in SelfCheckFaults(bigsi', call'.fail) :
                    (call'.ret = 0) <=> (bigsQuery(bigsi', disk', q, at).ret = 0)
              /\ call'.fail # "get" =>
                    ((call'.ret = 0) <=> (bigsQuery(bigsi', disk', q, 0).ret = 0))
              /\ \A i \in 1 .. q.len :
                    hvLocation(q.hashValues[i], bigsi'.numBits) \in 0 .. (bigsi'.numBits - 1)
     ]_vars

\* bigsLoad succeeded on a BIGSI with more hashes than bits whose rows are all
\* non-empty, so the check went through every position, those below 0 included
C30_Witness ==
    /\ call.op = "bigsLoad" /\ call.ret = 0
    /\ bigsi.numHashes > bigsi.numBits
    /\ bigsi.numBits = MaxShapeBits
    /\ \A i \in 0 .. (bigsi.numBits - 1) : disk.bitvectors.kv[i].bits # {}
    /\ bigsQuery(bigsi, disk, SelfCheckQuery(bigsi), 0).result.bits # {}

\* what the call thread t is in returns when it runs alone on the BIGSI
Alone(t) ==
    IF threads[t].op = "bigsQuery"
    THEN bigsQuery(bigsi, disk, threads[t].arg, threads[t].fault)
    ELSE bigsLookupColour(bigsi, disk, threads[t].arg, threads[t].fault)

\* C27: bigsQuery and bigsLookupColour change no BIGSI field and no stored row
\* or colour entry, and under any interleaving of calls from several threads,
\* each with its own result, every call returns the status and the result it
\* returns when run alone.
C27_ReadOnlyConcurrent ==
    /\ [][bigsi' = bigsi /\ disk' = disk]_vars
    /\ [](\A t \in Threads :
            threads[t].pc = "returned" =>
                /\ threads[t].ret = Alone(t).ret
                /\ threads[t].result = Alone(t).result)

\* a query returned a non-empty result while another thread, in a query with
\* other hash values, held a fetched row it had not merged yet
C27_Witness ==
    \E t, u \in Threads :
        /\ t # u
        /\ threads[t].pc = "returned" /\ threads[t].op = "bigsQuery"
        /\ threads[t].ret = 0 /\ threads[t].result.bits # {}
        /\ threads[u].pc = "merge" /\ threads[u].i > 0
        /\ threads[u].arg.hashValues # threads[t].arg.hashValues
        /\ threads[u].row # threads[t].row

\* the file at the path of the last loadConfig was produced by writeConfig
LoadedWritten == conf.call.op = "loadConfig" /\ conf.from[conf.call.f] # <<>>

\* no element of the file at the path of the last loadConfig can be scanned
LoadedNothing ==
    /\ conf.call.op = "loadConfig"
    /\ \A k \in LoadKeys : ~Scans(conf.files[conf.call.f], k)

\* the fields loadConfig does not copy
Others(c) ==
    <<c.workingDir, c.k_size, c.sketch_size, c.bloom_fp_rate, c.bloom_max_elements>>

\* loadConfig on a file that writeConfig(c, f) produced returns 0, sets the
\* destination's configFile, watchDir, pid and running to the values written
\* and leaves its other fields alone
ConfigRoundTrip ==
    LoadedWritten =>
        LET c == conf.from[conf.call.f][1]
        IN  /\ ~conf.call.crashed /\ conf.call.ret = 0
            /\ conf.dest.configFile = Str(conf.call.f)
            /\ conf.dest.watchDir = c.watchDir
            /\ conf.dest.pid = c.pid
            /\ conf.dest.running = c.running
            /\ Others(conf.dest) = Others(conf.before)

\* C28: loadConfig on the file writeConfig(c, f) produced returns 0 with the
\* destination's configFile (= f), watchDir, pid and running as written and its
\* other fields unchanged; when no element can be scanned, loadConfig returns
\* non-zero and leaves the destination unchanged.
C28_ConfigRoundTrip ==
    /\ ConfigRoundTrip
    /\ LoadedNothing =>
          /\ ~conf.call.crashed
          /\ conf.call.ret # 0
          /\ conf.dest = conf.before

\* the calls of two threads ran at the same time at some point
Overlapped == \E t \in Threads : threads[t].op = "bigsAdd" /\ threads[t].overlap

\* no thread is inside bigsAdd and one or more calls were made
AddsOver ==
    /\ pc = "live"
    /\ \A t \in Threads : ~InCall(t)
    /\ \E t \in Threads : threads[t].pc = "returned"

\* the build invariants: no two sequence IDs share a colour, colourIterator is
\* the number of sequence IDs recorded, and each ID's colour holds its name
\* and its Bloom filter's bits
BuildInvariants(b) ==
    /\ \A s1, s2 \in DOMAIN b.idChecker : s1 # s2 => b.idChecker[s1] # b.idChecker[s2]
    /\ b.colourIterator = Cardinality(DOMAIN b.idChecker)
    /\ \A s \in DOMAIN b.idChecker :
         /\ b.colourArray[b.idChecker[s]] = s
         /\ b.tmpBitVectors[b.idChecker[s]] = bvClone(FitBF(s).bitvector)

\* C26: bigsAdd is not thread-safe.  Calls made one after another leave the
\* build invariants in place; calls of two threads that interleave statement
\* by statement reach a state where two sequence IDs share a colour or an
\* entry was overwritten and colourIterator is not the number of IDs recorded.
C26_AddsNotThreadSafe ==
    (AddsOver /\ ~Overlapped) => BuildInvariants(bigsi)

\* both threads returned success from calls that interleaved, and two distinct
\* sequence IDs hold the same colour
C26_Witness ==
    /\ AddsOver /\ Overlapped
    /\ \A t \in Threads : threads[t].pc = "returned" /\ threads[t].ret = 0
    /\ \E s1, s2 \in DOMAIN bigsi.idChecker :
         s1 # s2 /\ bigsi.idChecker[s1] = bigsi.idChecker[s2]

\* the config file advertises the daemon: its pid with running = true
Advertised == daemon.pid > 0 /\ daemon.file = [pid |-> daemon.pid, running |-> TRUE]

\* C35: whenever the config file carries the daemon's pid with running = true,
\* the SIGTERM handler is installed, so a SIGTERM sent to that pid is never met
\* by the default disposition.
C35_HandlerBeforeAdvertised ==
    /\ (Advertised /\ daemon.main \notin {"exited", "returned"}) => daemon.handler
    /\ Advertised => daemon.status # "killed"

\* C36: during shutdown the watcher session is destroyed only after the watcher
\* thread has returned from its monitor loop: the thread is never in the
\* monitor or in the callback with the session destroyed.
C36_SessionOutlivesThread ==
    daemon.session = "destroyed" => daemon.watcher \notin {"loop", "stopping"}

\* C33: in every bigsAdd call each store into tmpBitVectors[colourIterator] and
\* colourArray[colourIterator] goes to an index below the number of slots
\* allocated at the start of the call, also when the map holds more pairs than
\* the declared numEntries.
C33_NoWritePastAllocation ==
    (call.op = "bigsAdd" /\ ~post.on) => ~call.oob

\* C32: during the build colourIterator never decreases and grows by exactly
\* one for each pair that is given a colour and by nothing else; the colours
\* go to the pairs in order from 0; and when bigsIndex succeeds colourIterator
\* is the number of entries in the colour store and the capacity of every row
\* in the row store.
C32_ColourCounter ==
    [][(Building /\ pc' = "live" /\ ~post'.oob)
       => /\ bigsi'.colourIterator >= bigsi.colourIterator
          /\ bigsi'.colourIterator - bigsi.colourIterator = Len(added') - Len(added)
          /\ call'.op # "bigsAdd" => bigsi'.colourIterator = bigsi.colourIterator
          /\ call'.op = "bigsAdd" =>
                \A c \in 0 .. (bigsi'.colourIterator - 1) :
                    /\ bigsi'.colourArray[c] = added'[c + 1].id
                    /\ bigsi'.tmpBitVectors[c] = bvClone(added'[c + 1].bf.bitvector)
          /\ (call'.op = "bigsIndex" /\ call'.ret = 0) =>
                /\ DOMAIN disk'.colours.kv = 0 .. (bigsi'.colourIterator - 1)
                /\ \A i \in 0 .. (bigsi'.numBits - 1) :
                      disk'.bitvectors.kv[i].capacity = bigsi'.colourIterator
      ]_vars

\* bigsIndex, the first call after the build, succeeded on two colours and left
\* two entries in the colour store
C32_Witness ==
    /\ call.op = "bigsIndex" /\ call.ret = 0
    /\ bigsi.colourIterator = 2 /\ Len(added) = 2
    /\ Cardinality(DOMAIN disk.colours.kv) = 2
    /\ Cardinality(DOMAIN bigsi.idChecker) = 0
    /\ post.ops = 0

\* C34: across bigsAdd* ; bigsIndex ; bigsDestroy with a failed bigsIndex, the
\* unfrozen bigsDestroy (bigsi.c:521-533) releases no build row and no owned
\* sequence-ID string that bigsIndex (bigsi.c:318-319) had already released,
\* and it leaves no store handle of the failed bigsIndex open.
C34_NoDoubleRelease ==
    [][(call'.op = "bigsDestroy" /\ pc = "live" /\ ~bigsi.indexed)
       => /\ \A c \in 0 .. (bigsi.colourIterator - 1) :
                /\ bigsi.tmpBitVectors[c] # FreedBV
                /\ bigsi.colourArray[c] # "freed"
          /\ bigsi'.colours_dbp # "open"
          /\ bigsi'.bitvectors_dbp # "open"
      ]_vars

\* the store handles and file-name strings a BIGSI record holds
Held(b) ==
    {h \in {"colours_dbp", "bitvectors_dbp"} : b[h] = "open"}
    \cup (IF b.filenames THEN {"filenames"} ELSE {})

\* C31: when bigsIndex, bigsLoad or bigsFlush returns an error, nothing the
\* call acquired is still held: bigsIndex and bigsFlush (reached through
\* bigsDestroy on a frozen BIGSI) leave no store handle open and no file-name
\* string allocated that was not so before the call, and the record a failed
\* bigsLoad built holds neither.
C31_ReleaseOnError ==
    [][/\ (call'.op = "bigsIndex" /\ call'.ret # 0) => Held(bigsi') \subseteq Held(bigsi)
       /\ (call'.op = "bigsDestroy" /\ call'.wasIndexed /\ call'.ret # 0)
              => Held(bigsi') \subseteq Held(bigsi)
       /\ (call'.op = "bigsLoad" /\ call'.ret # 0) => Held(bigsi') = {}
      ]_vars

====
